---- MODULE Spec2Model ----
(***************************************************************************)
(* A model of net::UDPSocketPosix (net/socket/udp_socket_posix.cc): the    *)
(* admission gate, the socket lifecycle (Open / Bind / Connect / Close),   *)
(* the readiness-driven read and write state machines and the received-    *)
(* activity monitor.                                                       *)
(*                                                                         *)
(* Every socket object lives on one sequence (thread_checker_), so the     *)
(* calls on one socket never overlap; pc[s] is the position of socket s's  *)
(* sequence.  Different sockets run on different sequences and interleave  *)
(* at the points where they touch process-wide state: the admission gate   *)
(* and the descriptor table of the OS.                                     *)
(*                                                                         *)
(* DCHECKs are the calling contract of the class and appear as guards;     *)
(* CHECKs are fatal in every build and appear as transitions to the        *)
(* aborted state.                                                          *)
(***************************************************************************)
EXTENDS Integers, Sequences, FiniteSets, TLC

----------------------------------------------------------------------------
(* Bounds of the model *)

\* capacity of the admission gate
GateCapacity == 1
\* Read and Write calls issued per socket
MaxOps == 2
\* largest buffer length passed to Read / Write
MaxLen == 2
\* the Increment calls on the monitor of a socket
MaxIncrements == 4

----------------------------------------------------------------------------
(* Program constants *)

kInvalidSocket == -1
kBindRetries == 10
kPortStart == 1024
kPortEnd == 65535
kActivityMonitorBytesThreshold == 65535
kActivityMonitorMinimumSamplesForThroughputEstimate == 2
kSocketFDHashKey == 1595649551
IP_DEFAULT_MULTICAST_TTL == 1

\* net error codes (net/base/net_error_list.h)
OK == 0
ERR_IO_PENDING == -1
ERR_FAILED == -2
ERR_INVALID_ARGUMENT == -4
ERR_ACCESS_DENIED == -10
ERR_INSUFFICIENT_RESOURCES == -12
ERR_SOCKET_NOT_CONNECTED == -15
ERR_SOCKET_IS_CONNECTED == -23
ERR_CONNECTION_REFUSED == -102
ERR_ADDRESS_INVALID == -108
ERR_MSG_TOO_BIG == -142
ERR_ADDRESS_IN_USE == -147

----------------------------------------------------------------------------
(* Sets the inputs are drawn from *)

\* one socket more than the gate admits
Sockets == 1 .. (GateCapacity + 1)
\* the socket that the single-socket specification drives
TheSocket == CHOOSE s \in Sockets : \A o \in Sockets : s <= o
\* descriptor numbers: 0, 1 and 2 are the standard streams
Fds == 3 .. (3 + GateCapacity)
AddressFamilies == {"ADDRESS_FAMILY_IPV4", "ADDRESS_FAMILY_IPV6"}

VARIABLES
  global_socket_count,   \* tokens the admission gate has handed out
  external_tokens,       \* tokens held by other users of the gate
  os_fds,                \* descriptors currently open in the OS
  bytes_received,        \* the process-wide received-bytes counter
  aborted,               \* a CHECK failed: the process is gone
  pc,                    \* per socket: position of its sequence
  sock,                  \* per socket: the fields of the UDPSocketPosix object
  hist                   \* per socket: what its calls returned (observation only)

vars == <<global_socket_count, external_tokens, os_fds, bytes_received,
          aborted, pc, sock, hist>>

----------------------------------------------------------------------------
(* Helpers *)

\* the fields of socket s, with the fields named in `changes` replaced
SetSock(s, changes) == sock' = [sock EXCEPT ![s] = changes @@ @]
SetHist(s, changes) == hist' = [hist EXCEPT ![s] = changes @@ @]
SetPc(s, p) == pc' = [pc EXCEPT ![s] = p]
\* the caller of socket s can make a call: between the operations of the
\* socket, or from a completion callback that the socket is running
CallerRuns(s) == pc[s] \in {"idle", "ReadCallback", "WriteCallback"}
\* the call `op` on socket s returned `rv`
Returned(s, op, rv) ==
  [ret |-> [op |-> op, rv |-> rv, path |-> "none", len |-> 0, n |-> 0,
            address |-> "none", calls |-> <<>>, failed |-> "none"]]
\* the receive or send `op` on socket s returned `rv`
ReturnedIo(s, op, rv, path, len, n) ==
  [ret |-> [op |-> op, rv |-> rv, path |-> path, len |-> len, n |-> n,
            address |-> "none", calls |-> <<>>, failed |-> "none"]]
\* observation: whether a receive asks for the sender's endpoint
EndpointAsked(address) == IF address THEN "asked" ELSE "null"
\* the receive or send `op` on socket s, called with the endpoint argument
\* `address`, left its state behind and returned ERR_IO_PENDING
ReturnedPending(s, op, path, len, n, address) ==
  [ret |-> [op |-> op, rv |-> ERR_IO_PENDING, path |-> path, len |-> len,
            n |-> n, address |-> address, calls |-> <<>>,
            failed |-> "none"]]
\* the Bind or Connect `op` on socket s returned `rv` after the system
\* calls `calls`, of which `failed` failed
ReturnedCalls(s, op, rv, calls, failed) ==
  [ret |-> [op |-> op, rv |-> rv, path |-> "none", len |-> 0, n |-> 0,
            address |-> "none", calls |-> calls, failed |-> failed]]

\* CreatePlatformSocket returns a descriptor that is not open; the sockets
\* of the model get their descriptors from disjoint parts of the table
CreatePlatformSocket(s) == CHOOSE fd \in Fds \ os_fds : fd = 2 + s

RECURSIVE BitXor(_, _)
BitXor(a, b) ==
  IF a = 0 THEN b
  ELSE IF b = 0 THEN a
  ELSE (((a % 2) + (b % 2)) % 2) + 2 * BitXor(a \div 2, b \div 2)

GetSocketFDHash(fd) == BitXor(fd, kSocketFDHashKey)

MapSystemError(errno) ==
  CASE errno = "EAGAIN" -> ERR_IO_PENDING
    [] errno = "ECONNREFUSED" -> ERR_CONNECTION_REFUSED
    [] errno = "EMSGSIZE" -> ERR_MSG_TOO_BIG
    [] errno = "EACCES" -> ERR_ACCESS_DENIED
    [] errno = "EADDRINUSE" -> ERR_ADDRESS_IN_USE
    [] errno = "ENOTCONN" -> ERR_SOCKET_NOT_CONNECTED
    [] OTHER -> ERR_FAILED

ConvertAddressFamily(address_family) ==
  CASE address_family = "ADDRESS_FAMILY_IPV4" -> "AF_INET"
    [] address_family = "ADDRESS_FAMILY_IPV6" -> "AF_INET6"
    [] OTHER -> "AF_UNSPEC"

----------------------------------------------------------------------------
(* The admission gate: a process-wide counter with a fixed capacity *)

TryAcquireGlobalUDPSocketCount == global_socket_count < GateCapacity

\* tokens held by sockets: the member owned_socket_count_ and Open's local
TokensHeldBy(s) ==
  (IF sock[s].owned_socket_count_ THEN 1 ELSE 0)
  + (IF sock[s].open_token THEN 1 ELSE 0)

----------------------------------------------------------------------------
(* Construction *)

UDPSocketPosix(bind_type, always_update_bytes_received) ==
  [ socket_ |-> kInvalidSocket,
    socket_hash_ |-> 0,
    bind_type_ |-> bind_type,
    owned_socket_count_ |-> FALSE,
    addr_family_ |-> "AF_UNSPEC",
    is_connected_ |-> FALSE,
    dont_close_ |-> FALSE,
    tag_ |-> "SocketTag()",
    remote_address_ |-> "null",
    local_address_ |-> "null",
    socket_options_ |-> {"SOCKET_OPTION_MULTICAST_LOOP"},
    multicast_interface_ |-> 0,
    multicast_time_to_live_ |-> IP_DEFAULT_MULTICAST_TTL,
    experimental_recv_optimization_enabled_ |-> FALSE,
    \* the pending read: 0 is the null buffer / null callback, and the
    \* buffer and the callback of the n-th Read call are both named n
    read_buf_ |-> 0,
    read_buf_len_ |-> 0,
    recv_from_address_ |-> FALSE,
    read_callback_ |-> 0,
    read_socket_watcher_ |-> FALSE,
    \* the pending write
    write_buf_ |-> 0,
    write_buf_len_ |-> 0,
    send_to_address_ |-> "null",
    write_callback_ |-> 0,
    write_socket_watcher_ |-> FALSE,
    \* received_activity_monitor_
    always_update_bytes_received_ |-> always_update_bytes_received,
    bytes_ |-> 0,
    increments_ |-> 0,
    timer_ |-> FALSE,
    \* locals of the call in progress
    open_token |-> FALSE,
    address_family |-> "none",
    address |-> "null",
    i |-> 0,
    rv |-> 0 ]

NoHist ==
  [ \* the last completed call: its result and, for a receive or a send,
    \* the path taken, the length asked for and the bytes the system call
    \* transferred (-1 on error); for GetPeerAddress and GetLocalAddress,
    \* path is the endpoint written to *address ("unwritten": none); for
    \* a setter, n is its argument; for a Close that found the socket
    \* closed, path is "closed"; for the monitor's Increment, n is its
    \* argument, and for its timer task, n is the bytes reported; for a
    \* receive or a send left pending, address is its endpoint argument;
    \* for Bind and Connect, calls are the setsockopt(2) calls of
    \* SetMulticastOptions and the bind(2) or connect(2) that followed, in
    \* their order, and failed is the one that failed
    ret |-> [op |-> "none", rv |-> OK, path |-> "none", len |-> 0, n |-> 0,
             address |-> "none", calls |-> <<>>, failed |-> "none"],
    \* per Read call: what it returned ("dropped" once a Close found it
    \* pending) and how often its callback ran
    nRead |-> 0,
    readRet |-> [n \in 1 .. MaxOps |-> "none"],
    readRuns |-> [n \in 1 .. MaxOps |-> 0],
    nWrite |-> 0,
    writeRet |-> [n \in 1 .. MaxOps |-> "none"],
    writeRuns |-> [n \in 1 .. MaxOps |-> 0],
    \* bind(2) calls of the Connect in progress, and the port and the
    \* result of the latest (-1: none yet)
    randomBinds |-> 0,
    zeroBinds |-> 0,
    port |-> -1,
    bindRv |-> OK,
    \* a Bind or a Connect has succeeded since the latest Open and Close
    bound |-> FALSE,
    \* the endpoint of that Connect
    peer |-> "null",
    \* the endpoint of the first GetLocalAddress that succeeded after it
    local |-> "null",
    \* the monitor: its Increment calls, the calls with bytes # 0 since the
    \* timer task last ran (2: two or more), and the reports made to the
    \* process-wide counter (2: two or more)
    nIncrement |-> 0,
    samples |-> 0,
    flushes |-> 0,
    \* the bytes that MonitorIncrement has passed to the monitor
    passed |-> 0,
    \* the setsockopt(2) calls of the Connect in progress
    options |-> <<>> ]

\* observation: a socket just opened or just closed
NotAddressed == [bound |-> FALSE, peer |-> "null", local |-> "null"]

InitCommon ==
  /\ global_socket_count = 0
  /\ external_tokens = 0
  /\ os_fds = {}
  /\ bytes_received = 0
  /\ aborted = FALSE
  /\ pc = [s \in Sockets |-> "idle"]
  /\ hist = [s \in Sockets |-> NoHist]

Init ==
  /\ InitCommon
  /\ sock = [s \in Sockets |-> UDPSocketPosix("DEFAULT_BIND", FALSE)]

----------------------------------------------------------------------------
(* ReceivedActivityMonitor: each operator gives the new monitor fields     *)
(* and the bytes it reports to the process-wide counter                    *)

\* a faulty Update that reports the bytes and keeps them
Update_KeepBytes(m) ==
  IF m.bytes_ = 0
    THEN [fields |-> [bytes_ |-> m.bytes_], reported |-> 0]
    ELSE [fields |-> [bytes_ |-> m.bytes_], reported |-> m.bytes_]

Update(m) ==
  IF m.bytes_ = 0
    THEN [fields |-> [bytes_ |-> m.bytes_], reported |-> 0]
    ELSE [fields |-> [bytes_ |-> 0], reported |-> m.bytes_]

\* a faulty Increment that reports the first two samples at once
Increment_ThreeSamples(m, bytes) ==
  IF bytes = 0
    THEN [fields |-> [bytes_ |-> m.bytes_], reported |-> 0]
    ELSE
      LET bytes1 == m.bytes_ + bytes
          increments1 == m.increments_ + 1
          flush ==
            \/ increments1
                 < kActivityMonitorMinimumSamplesForThroughputEstimate + 1
            \/ bytes1 > kActivityMonitorBytesThreshold
          u == Update([bytes_ |-> bytes1])
      IN [fields |-> [bytes_ |-> IF flush THEN u.fields.bytes_ ELSE bytes1,
                      increments_ |-> increments1,
                      timer_ |-> TRUE],
          reported |-> IF flush THEN u.reported ELSE 0]

\* a faulty Increment that starts the timer only when it reports
Increment_TimerOnReport(m, bytes) ==
  IF bytes = 0
    THEN [fields |-> [bytes_ |-> m.bytes_], reported |-> 0]
    ELSE
      LET bytes1 == m.bytes_ + bytes
          increments1 == m.increments_ + 1
          flush ==
            \/ increments1 < kActivityMonitorMinimumSamplesForThroughputEstimate
            \/ bytes1 > kActivityMonitorBytesThreshold
          u == Update([bytes_ |-> bytes1])
      IN [fields |-> [bytes_ |-> IF flush THEN u.fields.bytes_ ELSE bytes1,
                      increments_ |-> increments1,
                      timer_ |-> IF flush THEN TRUE ELSE m.timer_],
          reported |-> IF flush THEN u.reported ELSE 0]

\* a faulty Increment that reports as soon as the threshold is reached
Increment_AtThreshold(m, bytes) ==
  IF bytes = 0
    THEN [fields |-> [bytes_ |-> m.bytes_], reported |-> 0]
    ELSE
      LET bytes1 == m.bytes_ + bytes
          increments1 == m.increments_ + 1
          flush ==
            \/ increments1 < kActivityMonitorMinimumSamplesForThroughputEstimate
            \/ bytes1 >= kActivityMonitorBytesThreshold
          u == Update([bytes_ |-> bytes1])
      IN [fields |-> [bytes_ |-> IF flush THEN u.fields.bytes_ ELSE bytes1,
                      increments_ |-> increments1,
                      timer_ |-> TRUE],
          reported |-> IF flush THEN u.reported ELSE 0]

Increment(m, bytes) ==
  IF bytes = 0
    THEN [fields |-> [bytes_ |-> m.bytes_], reported |-> 0]
    ELSE
      LET bytes1 == m.bytes_ + bytes
          increments1 == m.increments_ + 1
          flush ==
            \/ increments1 < kActivityMonitorMinimumSamplesForThroughputEstimate
            \/ bytes1 > kActivityMonitorBytesThreshold
          u == Update([bytes_ |-> bytes1])
      IN [fields |-> [bytes_ |-> IF flush THEN u.fields.bytes_ ELSE bytes1,
                      increments_ |-> increments1,
                      timer_ |-> TRUE],
          reported |-> IF flush THEN u.reported ELSE 0]

\* a faulty OnClose that stops the timer and leaves the bytes
OnClose_NoUpdate(m) ==
  [fields |-> [timer_ |-> FALSE, bytes_ |-> m.bytes_], reported |-> 0]

\* a faulty OnClose that leaves the timer running
OnClose_KeepTimer(m) ==
  LET u == Update(m)
  IN [fields |-> [timer_ |-> m.timer_] @@ u.fields, reported |-> u.reported]

OnClose(m) ==
  LET u == Update(m)
  IN [fields |-> [timer_ |-> FALSE] @@ u.fields, reported |-> u.reported]

\* a faulty timer task that leaves the sample counter
TimerFired_KeepIncrements(m) ==
  IF m.bytes_ = 0
    THEN [fields |-> [timer_ |-> FALSE], reported |-> 0]
    ELSE LET u == Update(m)
         IN [fields |-> u.fields, reported |-> u.reported]

TimerFired(m) ==
  IF m.bytes_ = 0
    THEN [fields |-> [increments_ |-> 0, timer_ |-> FALSE], reported |-> 0]
    ELSE LET u == Update(m)
         IN [fields |-> [increments_ |-> 0] @@ u.fields,
             reported |-> u.reported]

\* observation: one more report to the process-wide counter
Flushed(s, reported) ==
  [flushes |-> IF reported = 0 \/ hist[s].flushes = 2 THEN hist[s].flushes
               ELSE hist[s].flushes + 1]

\* lines 212-222: the timer task of socket s runs
OnTimerFired(s) ==
  /\ ~aborted
  /\ pc[s] = "idle"
  /\ sock[s].timer_
  /\ LET m == TimerFired(sock[s]) IN
       /\ SetSock(s, m.fields)
       /\ bytes_received' = bytes_received + m.reported
       /\ SetHist(s, [samples |-> 0]
                     @@ Flushed(s, m.reported)
                     @@ ReturnedIo(s, "OnTimerFired", OK, "none", 0,
                                   m.reported))
  /\ UNCHANGED <<global_socket_count, external_tokens, os_fds, aborted, pc>>

\* lines 179-198: the bytes of a read of socket s reach the monitor
MonitorIncrement(s, bytes) ==
  /\ ~aborted
  /\ pc[s] = "idle"
  /\ sock[s].socket_ # kInvalidSocket
  /\ ~sock[s].always_update_bytes_received_
  /\ hist[s].nIncrement < MaxIncrements
  /\ LET m == Increment(sock[s], bytes) IN
       /\ SetSock(s, m.fields)
       /\ bytes_received' = bytes_received + m.reported
       /\ SetHist(s, [nIncrement |-> hist[s].nIncrement + 1,
                      passed |-> hist[s].passed + bytes,
                      samples |-> IF bytes = 0 \/ hist[s].samples = 2
                                    THEN hist[s].samples
                                    ELSE hist[s].samples + 1]
                     @@ Flushed(s, m.reported)
                     @@ ReturnedIo(s, "Increment", OK, "none", 0, bytes))
  /\ UNCHANGED <<global_socket_count, external_tokens, os_fds, aborted, pc>>

----------------------------------------------------------------------------
(* Close: lines 233-285, the part after the early return, as the new       *)
(* fields of the socket and the bytes the monitor reports                  *)

\* a faulty Close that leaves the stored callbacks in place
CloseFields_KeepCallbacks(r) ==
  LET m == OnClose(r)
  IN [fields |->
        [ read_buf_ |-> 0,
          read_buf_len_ |-> 0,
          recv_from_address_ |-> FALSE,
          write_buf_ |-> 0,
          write_buf_len_ |-> 0,
          send_to_address_ |-> "null",
          read_socket_watcher_ |-> FALSE,
          write_socket_watcher_ |-> FALSE,
          socket_ |-> kInvalidSocket,
          addr_family_ |-> "AF_UNSPEC",
          is_connected_ |-> FALSE,
          tag_ |-> "SocketTag()" ] @@ m.fields,
      reported |-> m.reported]

\* a faulty Close that leaves is_connected_ as it was
CloseFields_KeepConnected(r) ==
  LET m == OnClose(r)
  IN [fields |->
        [ read_buf_ |-> 0,
          read_buf_len_ |-> 0,
          read_callback_ |-> 0,
          recv_from_address_ |-> FALSE,
          write_buf_ |-> 0,
          write_buf_len_ |-> 0,
          write_callback_ |-> 0,
          send_to_address_ |-> "null",
          read_socket_watcher_ |-> FALSE,
          write_socket_watcher_ |-> FALSE,
          socket_ |-> kInvalidSocket,
          addr_family_ |-> "AF_UNSPEC",
          tag_ |-> "SocketTag()" ] @@ m.fields,
      reported |-> m.reported]

\* a faulty Close that leaves the number of the descriptor in socket_
CloseFields_KeepSocket(r) ==
  LET m == OnClose(r)
  IN [fields |->
        [ read_buf_ |-> 0,
          read_buf_len_ |-> 0,
          read_callback_ |-> 0,
          recv_from_address_ |-> FALSE,
          write_buf_ |-> 0,
          write_buf_len_ |-> 0,
          write_callback_ |-> 0,
          send_to_address_ |-> "null",
          read_socket_watcher_ |-> FALSE,
          write_socket_watcher_ |-> FALSE,
          addr_family_ |-> "AF_UNSPEC",
          is_connected_ |-> FALSE,
          tag_ |-> "SocketTag()" ] @@ m.fields,
      reported |-> m.reported]

CloseFields(r) ==
  LET m == OnClose(r)
  IN [fields |->
        [ read_buf_ |-> 0,
          read_buf_len_ |-> 0,
          read_callback_ |-> 0,
          recv_from_address_ |-> FALSE,
          write_buf_ |-> 0,
          write_buf_len_ |-> 0,
          write_callback_ |-> 0,
          send_to_address_ |-> "null",
          read_socket_watcher_ |-> FALSE,
          write_socket_watcher_ |-> FALSE,
          socket_ |-> kInvalidSocket,
          addr_family_ |-> "AF_UNSPEC",
          is_connected_ |-> FALSE,
          tag_ |-> "SocketTag()" ] @@ m.fields,
      reported |-> m.reported]

\* observation: the calls a Close finds pending are dropped
Dropped(r, h) ==
  [ readRet |-> [n \in 1 .. MaxOps |->
                   IF n = r.read_callback_ THEN "dropped" ELSE h.readRet[n]],
    writeRet |-> [n \in 1 .. MaxOps |->
                    IF n = r.write_callback_ THEN "dropped" ELSE h.writeRet[n]] ]

\* the locals of a call are gone when it returns
NoLocals ==
  [open_token |-> FALSE, address_family |-> "none", address |-> "null",
   i |-> 0, rv |-> 0]

----------------------------------------------------------------------------
(* Open *)

\* a faulty Open that takes a token without asking whether the gate has one
OpenAcquire_Unchecked(s, address_family) ==
  /\ ~aborted
  /\ pc[s] = "idle"
  /\ sock[s].socket_ = kInvalidSocket
  /\ global_socket_count' = global_socket_count + 1
  /\ SetSock(s, [open_token |-> TRUE, address_family |-> address_family])
  /\ SetPc(s, "Open_acquired")
  /\ UNCHANGED <<hist, external_tokens, os_fds, bytes_received, aborted>>

\* a faulty Open that records the address family before it asks the gate
OpenAcquire_FamilyFirst(s, address_family) ==
  /\ ~aborted
  /\ pc[s] = "idle"
  /\ sock[s].socket_ = kInvalidSocket
  /\ IF TryAcquireGlobalUDPSocketCount
       THEN /\ global_socket_count' = global_socket_count + 1
            /\ SetSock(s, [open_token |-> TRUE,
                           address_family |-> address_family])
            /\ SetPc(s, "Open_acquired")
            /\ UNCHANGED hist
       ELSE /\ SetHist(s, Returned(s, "Open", ERR_INSUFFICIENT_RESOURCES))
            /\ SetSock(s, [addr_family_ |->
                             ConvertAddressFamily(address_family)])
            /\ UNCHANGED <<global_socket_count, pc>>
  /\ UNCHANGED <<external_tokens, os_fds, bytes_received, aborted>>

\* lines 150-156: the precondition and the admission gate
OpenAcquire(s, address_family) ==
  /\ ~aborted
  /\ pc[s] = "idle"
  /\ sock[s].socket_ = kInvalidSocket
  /\ IF TryAcquireGlobalUDPSocketCount
       THEN /\ global_socket_count' = global_socket_count + 1
            /\ SetSock(s, [open_token |-> TRUE,
                           address_family |-> address_family])
            /\ SetPc(s, "Open_acquired")
            /\ UNCHANGED hist
       ELSE /\ SetHist(s, Returned(s, "Open", ERR_INSUFFICIENT_RESOURCES))
            /\ UNCHANGED <<global_socket_count, sock, pc>>
  /\ UNCHANGED <<external_tokens, os_fds, bytes_received, aborted>>

\* lines 158-161: the descriptor is created, or Open returns the mapped error
\* and its local token goes out of scope
OpenCreate(s) ==
  /\ ~aborted
  /\ pc[s] = "Open_acquired"
  /\ \/ /\ LET fd == CreatePlatformSocket(s) IN
             /\ os_fds' = os_fds \cup {fd}
             /\ SetSock(s, [addr_family_ |->
                              ConvertAddressFamily(sock[s].address_family),
                            socket_ |-> fd])
        /\ SetPc(s, "Open_created")
        /\ UNCHANGED <<global_socket_count, hist>>
     \/ /\ \E errno \in {"EACCES"} :
             SetHist(s, Returned(s, "Open", MapSystemError(errno)))
        /\ SetSock(s, [addr_family_ |->
                         ConvertAddressFamily(sock[s].address_family)]
                      @@ NoLocals)
        /\ global_socket_count' = global_socket_count - 1
        /\ SetPc(s, "idle")
        /\ UNCHANGED os_fds
  /\ UNCHANGED <<external_tokens, bytes_received, aborted>>

\* a faulty Open that returns the SetNonBlocking error without Close(): the
\* local token is released, the descriptor stays
OpenFinish_NoClose(s) ==
  /\ ~aborted
  /\ pc[s] = "Open_created"
  /\ LET socket_hash == GetSocketFDHash(sock[s].socket_) IN
     \/ /\ SetSock(s, [socket_hash_ |-> socket_hash,
                       owned_socket_count_ |-> TRUE] @@ NoLocals)
        /\ SetHist(s, Returned(s, "Open", OK) @@ NotAddressed)
        /\ UNCHANGED global_socket_count
     \/ /\ \E errno \in {"EACCES"} :
             SetHist(s, Returned(s, "Open", MapSystemError(errno)))
        /\ SetSock(s, NoLocals @@ [socket_hash_ |-> socket_hash])
        /\ global_socket_count' = global_socket_count - 1
  /\ SetPc(s, "idle")
  /\ UNCHANGED <<external_tokens, os_fds, bytes_received, aborted>>

\* lines 166-176: fingerprint, non-blocking mode, tag, the token moves to the
\* member; when SetNonBlocking fails, Close() and the mapped error
OpenFinish(s) ==
  /\ ~aborted
  /\ pc[s] = "Open_created"
  /\ LET socket_hash == GetSocketFDHash(sock[s].socket_) IN
     \/ /\ SetSock(s, [socket_hash_ |-> socket_hash,
                       owned_socket_count_ |-> TRUE] @@ NoLocals)
        /\ SetHist(s, Returned(s, "Open", OK) @@ NotAddressed)
        /\ SetPc(s, "idle")
        /\ UNCHANGED <<global_socket_count, os_fds, bytes_received, aborted>>
     \/ /\ ~sock[s].dont_close_
        /\ \E errno \in {"EACCES"} :
             SetHist(s, Returned(s, "Open", MapSystemError(errno))
                        @@ NotAddressed @@ Dropped(sock[s], hist[s]))
        /\ LET c == CloseFields(sock[s]) IN
             /\ SetSock(s, NoLocals @@ c.fields
                           @@ [socket_hash_ |-> socket_hash])
             /\ bytes_received' = bytes_received + c.reported
        /\ os_fds' = os_fds \ {sock[s].socket_}
        /\ global_socket_count' = global_socket_count - 1
        /\ SetPc(s, "idle")
        /\ UNCHANGED aborted
     \/ /\ sock[s].dont_close_
        /\ aborted' = TRUE
        /\ UNCHANGED <<global_socket_count, os_fds, bytes_received, pc, sock,
                       hist>>
  /\ UNCHANGED <<external_tokens>>

----------------------------------------------------------------------------
(* Close *)

\* a faulty Close that keeps the member token
CloseBegin_KeepToken(s) ==
  /\ ~aborted
  /\ pc[s] = "idle"
  /\ IF sock[s].dont_close_
       THEN /\ aborted' = TRUE
            /\ UNCHANGED <<pc, sock, hist>>
       ELSE /\ IF sock[s].socket_ = kInvalidSocket
                 THEN /\ SetHist(s, ReturnedIo(s, "Close", OK, "closed", 0, 0)
                                    @@ NotAddressed)
                      /\ UNCHANGED pc
                 ELSE /\ SetPc(s, "Close_released")
                      /\ UNCHANGED hist
            /\ UNCHANGED <<sock, aborted>>
  /\ UNCHANGED <<global_socket_count, external_tokens, os_fds,
                 bytes_received>>

\* a faulty Close that tests dont_close_ after the early return
CloseBegin_CheckAfterReturn(s) ==
  /\ ~aborted
  /\ pc[s] = "idle"
  /\ IF sock[s].socket_ = kInvalidSocket
       THEN /\ global_socket_count' =
                 IF sock[s].owned_socket_count_ THEN global_socket_count - 1
                 ELSE global_socket_count
            /\ SetSock(s, [owned_socket_count_ |-> FALSE])
            /\ SetHist(s, ReturnedIo(s, "Close", OK, "closed", 0, 0)
                          @@ NotAddressed)
            /\ UNCHANGED <<pc, aborted>>
     ELSE IF sock[s].dont_close_
       THEN /\ aborted' = TRUE
            /\ UNCHANGED <<global_socket_count, pc, sock, hist>>
       ELSE /\ global_socket_count' =
                 IF sock[s].owned_socket_count_ THEN global_socket_count - 1
                 ELSE global_socket_count
            /\ SetSock(s, [owned_socket_count_ |-> FALSE])
            /\ SetPc(s, "Close_released")
            /\ UNCHANGED <<hist, aborted>>
  /\ UNCHANGED <<external_tokens, os_fds, bytes_received>>

\* lines 224-231: CHECK(!dont_close_), the member token is reset, and the
\* early return of a socket that has no descriptor
CloseBegin(s) ==
  /\ ~aborted
  /\ pc[s] = "idle"
  /\ IF sock[s].dont_close_
       THEN /\ aborted' = TRUE
            /\ UNCHANGED <<global_socket_count, pc, sock, hist>>
       ELSE /\ global_socket_count' =
                 IF sock[s].owned_socket_count_ THEN global_socket_count - 1
                 ELSE global_socket_count
            /\ SetSock(s, [owned_socket_count_ |-> FALSE])
            /\ IF sock[s].socket_ = kInvalidSocket
                 THEN /\ SetHist(s, ReturnedIo(s, "Close", OK, "closed", 0, 0)
                                    @@ NotAddressed)
                      /\ UNCHANGED pc
                 ELSE /\ SetPc(s, "Close_released")
                      /\ UNCHANGED hist
            /\ UNCHANGED aborted
  /\ UNCHANGED <<external_tokens, os_fds, bytes_received>>

\* lines 233-285: pending state zeroed, watchers stopped, fingerprint
\* checked, descriptor closed, fields reset, monitor flushed
CloseFinish(s) ==
  /\ ~aborted
  /\ pc[s] = "Close_released"
  /\ IF sock[s].socket_hash_ # GetSocketFDHash(sock[s].socket_)
       THEN /\ aborted' = TRUE
            /\ UNCHANGED <<os_fds, bytes_received, pc, sock, hist>>
       ELSE /\ os_fds' = os_fds \ {sock[s].socket_}
            /\ LET c == CloseFields(sock[s]) IN
                 /\ SetSock(s, c.fields)
                 /\ bytes_received' = bytes_received + c.reported
            /\ SetHist(s, ReturnedIo(s, "Close", OK, "none", 0,
                                      CloseFields(sock[s]).reported)
                           @@ NotAddressed
                           @@ Dropped(sock[s], hist[s])
                           @@ Flushed(s, CloseFields(sock[s]).reported))
            /\ SetPc(s, "idle")
            /\ UNCHANGED aborted
  /\ UNCHANGED <<global_socket_count, external_tokens>>

----------------------------------------------------------------------------
(* Receive *)

\* what recvmsg(2) / read(2) can do with a buffer of buf_len bytes: n bytes
\* transferred, or -1 and errno; MSG_TRUNC is set only on a buffer filled to
\* the end; addr_ok says whether the sender's address parses
RecvOutcomes(buf_len) ==
  { o \in [n : 0 .. buf_len, errno : {"none"}, trunc : BOOLEAN,
            addr_ok : BOOLEAN] : o.trunc => o.n = buf_len }
  \cup [n : {-1}, errno : {"EAGAIN", "ECONNREFUSED"}, trunc : {FALSE},
        addr_ok : {TRUE}]

\* lines 666-690: a result >= 0 is counted, by the process-wide counter or
\* by the monitor of the socket
LogRead(r, result) ==
  IF result < 0
    THEN [fields |-> [bytes_ |-> r.bytes_], reported |-> 0]
    ELSE IF r.always_update_bytes_received_
      THEN [fields |-> [bytes_ |-> r.bytes_], reported |-> result]
      ELSE Increment(r, result)

\* a faulty truncation test that lets a filled buffer pass as a byte count
ConnectedResult_Greater(bytes_transferred, errno, buf_len) ==
  IF bytes_transferred < 0 THEN MapSystemError(errno)
  ELSE IF bytes_transferred > buf_len THEN ERR_MSG_TOO_BIG
  ELSE bytes_transferred

\* lines 731-760, as the result for what read(2) did
ConnectedResult(bytes_transferred, errno, buf_len) ==
  IF bytes_transferred < 0 THEN MapSystemError(errno)
  ELSE IF bytes_transferred = buf_len THEN ERR_MSG_TOO_BIG
  ELSE bytes_transferred

InternalRecvFromConnectedSocket(r, buf_len, address, o) ==
  LET result == ConnectedResult(o.n, o.errno, buf_len)
      log == IF result = ERR_IO_PENDING
               THEN [fields |-> [bytes_ |-> r.bytes_], reported |-> 0]
               ELSE LogRead(r, result)
  IN [result |-> result,
      path |-> "connected",
      \* *address = *remote_address_ on a result that is a byte count
      address_out |-> IF result >= 0 /\ address THEN r.remote_address_
                      ELSE "null",
      fields |-> log.fields,
      reported |-> log.reported]

\* lines 762-799, as the result for what recvmsg(2) did
NonConnectedResult(bytes_transferred, errno, trunc, address, addr_ok) ==
  IF bytes_transferred < 0 THEN MapSystemError(errno)
  ELSE IF trunc THEN ERR_MSG_TOO_BIG
  ELSE IF address /\ ~addr_ok THEN ERR_ADDRESS_INVALID
  ELSE bytes_transferred

InternalRecvFromNonConnectedSocket(r, buf_len, address, o) ==
  LET result == NonConnectedResult(o.n, o.errno, o.trunc, address, o.addr_ok)
      log == IF result = ERR_IO_PENDING
               THEN [fields |-> [bytes_ |-> r.bytes_], reported |-> 0]
               ELSE LogRead(r, result)
  IN [result |-> result,
      path |-> "general",
      address_out |-> IF o.n >= 0 /\ ~o.trunc /\ address /\ o.addr_ok
                        THEN "sender" ELSE "null",
      fields |-> log.fields,
      reported |-> log.reported]

\* lines 719-729
InternalRecvFrom(r, buf_len, address, o) ==
  IF /\ r.experimental_recv_optimization_enabled_
     /\ r.is_connected_
     /\ r.remote_address_ # "null"
    THEN InternalRecvFromConnectedSocket(r, buf_len, address, o)
    ELSE InternalRecvFromNonConnectedSocket(r, buf_len, address, o)

\* lines 342-366: the immediate attempt; a would-block result registers the
\* watcher and stores the buffer, the length, the address slot and the
\* callback
RecvFromAttempt_EagerWatch(s, buf_len, address) ==
  \E o \in RecvOutcomes(buf_len) :
    LET call == hist[s].nRead + 1
        x == InternalRecvFrom(sock[s], buf_len, address, o)
    IN IF x.result # ERR_IO_PENDING
         THEN /\ SetSock(s, [read_socket_watcher_ |-> TRUE] @@ x.fields)
              /\ bytes_received' = bytes_received + x.reported
              /\ SetHist(s, [nRead |-> call,
                             readRet |-> [hist[s].readRet EXCEPT
                                            ![call] = "sync"]]
                            @@ ReturnedIo(s, "Read", x.result, x.path,
                                          buf_len, o.n))
         ELSE /\ UNCHANGED bytes_received
              /\ SetSock(s, [read_socket_watcher_ |-> TRUE,
                             read_buf_ |-> call,
                             read_buf_len_ |-> buf_len,
                             recv_from_address_ |-> address,
                             read_callback_ |-> call])
              /\ SetHist(s, [nRead |-> call,
                             readRet |-> [hist[s].readRet EXCEPT
                                            ![call] = "pending"]]
                            @@ ReturnedPending(s, "Read", x.path, buf_len,
                                               o.n, EndpointAsked(address)))

RecvFromAttempt(s, buf_len, address) ==
  \E o \in RecvOutcomes(buf_len) :
    LET call == hist[s].nRead + 1
        x == InternalRecvFrom(sock[s], buf_len, address, o)
    IN IF x.result # ERR_IO_PENDING
         THEN /\ SetSock(s, x.fields)
              /\ bytes_received' = bytes_received + x.reported
              /\ SetHist(s, [nRead |-> call,
                             readRet |-> [hist[s].readRet EXCEPT
                                            ![call] = "sync"]]
                            @@ ReturnedIo(s, "Read", x.result, x.path,
                                          buf_len, o.n))
         ELSE
           /\ UNCHANGED bytes_received
           /\ \/ \* WatchFileDescriptor fails
                 /\ \E errno \in {"EBADF", "EAGAIN"} :
                      SetHist(s, [nRead |-> call,
                                  readRet |-> [hist[s].readRet EXCEPT
                                                 ![call] = "unwatched"]]
                                 @@ ReturnedIo(s, "Read",
                                               MapSystemError(errno), x.path,
                                               buf_len, o.n))
                 /\ UNCHANGED sock
              \/ /\ SetSock(s, [read_socket_watcher_ |-> TRUE,
                                read_buf_ |-> call,
                                read_buf_len_ |-> buf_len,
                                recv_from_address_ |-> address,
                                read_callback_ |-> call])
                 /\ SetHist(s, [nRead |-> call,
                                readRet |-> [hist[s].readRet EXCEPT
                                               ![call] = "pending"]]
                               @@ ReturnedPending(s, "Read", x.path,
                                                  buf_len, o.n,
                                                  EndpointAsked(address)))

\* a faulty RecvFrom without CHECK(read_callback_.is_null())
RecvFrom_NoCheck(s, buf_len, address) ==
  /\ ~aborted
  /\ CallerRuns(s)
  /\ sock[s].socket_ # kInvalidSocket
  /\ hist[s].nRead + hist[s].nWrite < MaxOps
  /\ RecvFromAttempt(s, buf_len, address)
  /\ UNCHANGED <<global_socket_count, external_tokens, os_fds, pc, aborted>>

\* lines 331-341: Read (address = FALSE) and RecvFrom; a call while a read
\* is pending fails the CHECK
RecvFrom(s, buf_len, address) ==
  /\ ~aborted
  /\ CallerRuns(s)
  /\ sock[s].socket_ # kInvalidSocket
  /\ hist[s].nRead + hist[s].nWrite < MaxOps
  /\ IF sock[s].read_callback_ # 0
       THEN /\ aborted' = TRUE
            /\ UNCHANGED <<bytes_received, sock, hist>>
       ELSE /\ UNCHANGED aborted
            /\ RecvFromAttempt(s, buf_len, address)
  /\ UNCHANGED <<global_socket_count, external_tokens, os_fds, pc>>

\* a faulty DidCompleteRead that stops watching when the retry would block
DidCompleteRead_StopOnRetry(s) ==
  \E o \in RecvOutcomes(sock[s].read_buf_len_) :
    LET x == InternalRecvFrom(sock[s], sock[s].read_buf_len_,
                              sock[s].recv_from_address_, o)
    IN IF x.result # ERR_IO_PENDING
         THEN /\ SetSock(s, [read_buf_ |-> 0,
                             read_buf_len_ |-> 0,
                             recv_from_address_ |-> FALSE,
                             read_socket_watcher_ |-> FALSE,
                             rv |-> x.result] @@ x.fields)
              /\ bytes_received' = bytes_received + x.reported
              /\ SetHist(s, ReturnedIo(s, "DidCompleteRead", x.result, x.path,
                                       sock[s].read_buf_len_, o.n))
              /\ SetPc(s, "DoReadCallback")
         ELSE /\ SetHist(s, ReturnedIo(s, "DidCompleteRead", x.result, x.path,
                                       sock[s].read_buf_len_, o.n))
              /\ SetSock(s, [read_socket_watcher_ |-> FALSE])
              /\ UNCHANGED <<bytes_received, pc>>

\* lines 653-664, up to the call of DoReadCallback
DidCompleteRead(s) ==
  \E o \in RecvOutcomes(sock[s].read_buf_len_) :
    LET x == InternalRecvFrom(sock[s], sock[s].read_buf_len_,
                              sock[s].recv_from_address_, o)
    IN IF x.result # ERR_IO_PENDING
         THEN /\ SetSock(s, [read_buf_ |-> 0,
                             read_buf_len_ |-> 0,
                             recv_from_address_ |-> FALSE,
                             read_socket_watcher_ |-> FALSE,
                             rv |-> x.result] @@ x.fields)
              /\ bytes_received' = bytes_received + x.reported
              /\ SetHist(s, ReturnedIo(s, "DidCompleteRead", x.result, x.path,
                                       sock[s].read_buf_len_, o.n))
              /\ SetPc(s, "DoReadCallback")
         ELSE /\ SetHist(s, ReturnedIo(s, "DidCompleteRead", x.result, x.path,
                                       sock[s].read_buf_len_, o.n))
              /\ UNCHANGED <<bytes_received, sock, pc>>

\* a faulty notification that retries the receive without a pending Read
OnFileCanReadWithoutBlocking_Unchecked(s) ==
  /\ ~aborted
  /\ pc[s] = "idle"
  /\ DidCompleteRead(s)
  /\ UNCHANGED <<global_socket_count, external_tokens, os_fds, aborted>>

\* lines 623-628: the read watcher's notification
OnFileCanReadWithoutBlocking(s) ==
  /\ ~aborted
  /\ pc[s] = "idle"
  /\ IF sock[s].read_callback_ # 0
       THEN DidCompleteRead(s)
       ELSE /\ SetHist(s, ReturnedIo(s, "OnFileCanReadWithoutBlocking", OK,
                                     "ignored", 0, 0))
            /\ UNCHANGED <<bytes_received, sock, pc>>
  /\ UNCHANGED <<global_socket_count, external_tokens, os_fds, aborted>>

\* a faulty DoReadCallback that runs a copy of the callback and keeps the
\* member
DoReadCallback_Copy(s) ==
  /\ ~aborted
  /\ pc[s] = "DoReadCallback"
  /\ LET callback == sock[s].read_callback_ IN
       /\ SetSock(s, NoLocals)
       /\ SetHist(s, [readRuns |-> [hist[s].readRuns EXCEPT
                                      ![callback] = @ + 1]]
                     @@ Returned(s, "ReadCallback", sock[s].rv))
  /\ SetPc(s, "idle")
  /\ UNCHANGED <<global_socket_count, external_tokens, os_fds, bytes_received,
                 aborted>>

\* lines 635-642: the callback is moved out of the member and run
DoReadCallback(s) ==
  /\ ~aborted
  /\ pc[s] = "DoReadCallback"
  /\ LET callback == sock[s].read_callback_ IN
       /\ SetSock(s, [read_callback_ |-> 0] @@ NoLocals)
       /\ SetHist(s, [readRuns |-> [hist[s].readRuns EXCEPT
                                      ![callback] = @ + 1]]
                     @@ Returned(s, "ReadCallback", sock[s].rv))
  /\ SetPc(s, "idle")
  /\ UNCHANGED <<global_socket_count, external_tokens, os_fds, bytes_received,
                 aborted>>

----------------------------------------------------------------------------
(* Send *)

\* IPEndPoint::ToSockAddr fails on an endpoint whose address is malformed
ToSockAddr(address) == address # "invalid"

\* what sendto(2) can do with a datagram of buf_len bytes
SendOutcomes(buf_len) ==
  [n : {buf_len}, errno : {"none"}]
  \cup [n : {-1}, errno : {"EAGAIN", "EMSGSIZE"}]

\* lines 801-824
InternalSendTo(buf_len, address, o) ==
  IF address # "null" /\ ~ToSockAddr(address) THEN ERR_ADDRESS_INVALID
  ELSE IF o.n < 0 THEN MapSystemError(o.errno)
  ELSE o.n

\* a faulty SendToOrWrite without CHECK(write_callback_.is_null())
SendToOrWrite_NoCheck(s, buf_len, address) ==
  /\ ~aborted
  /\ CallerRuns(s)
  /\ sock[s].socket_ # kInvalidSocket
  /\ hist[s].nRead + hist[s].nWrite < MaxOps
  /\ IF FALSE
       THEN /\ aborted' = TRUE
            /\ UNCHANGED <<sock, hist>>
       ELSE
         /\ UNCHANGED aborted
         /\ \E o \in SendOutcomes(buf_len) :
              LET call == hist[s].nWrite + 1
                  result == InternalSendTo(buf_len, address, o)
              IN IF result # ERR_IO_PENDING
                   THEN /\ SetHist(s, [nWrite |-> call,
                                       writeRet |-> [hist[s].writeRet EXCEPT
                                                       ![call] = "sync"]]
                                      @@ ReturnedIo(s, "Write", result,
                                                    "send", buf_len, o.n))
                        /\ UNCHANGED sock
                   ELSE
                     \/ \* WatchFileDescriptor fails
                        /\ \E errno \in {"EBADF", "EAGAIN"} :
                             SetHist(s, [nWrite |-> call,
                                         writeRet |-> [hist[s].writeRet EXCEPT
                                                         ![call] = "unwatched"]]
                                        @@ ReturnedIo(s, "Write",
                                             MapSystemError(errno), "send",
                                             buf_len, o.n))
                        /\ UNCHANGED sock
                     \/ /\ SetSock(s, [write_socket_watcher_ |-> TRUE,
                                       write_buf_ |-> call,
                                       write_buf_len_ |-> buf_len,
                                       send_to_address_ |-> address,
                                       write_callback_ |-> call])
                        /\ SetHist(s, [nWrite |-> call,
                                       writeRet |-> [hist[s].writeRet EXCEPT
                                                       ![call] = "pending"]]
                                      @@ ReturnedPending(s, "Write", "send",
                                                         buf_len, o.n,
                                                         address))
  /\ UNCHANGED <<global_socket_count, external_tokens, os_fds, bytes_received,
                 pc>>

\* lines 368-418: Write (address = "null") and SendTo
SendToOrWrite(s, buf_len, address) ==
  /\ ~aborted
  /\ CallerRuns(s)
  /\ sock[s].socket_ # kInvalidSocket
  /\ hist[s].nRead + hist[s].nWrite < MaxOps
  /\ IF sock[s].write_callback_ # 0
       THEN /\ aborted' = TRUE
            /\ UNCHANGED <<sock, hist>>
       ELSE
         /\ UNCHANGED aborted
         /\ \E o \in SendOutcomes(buf_len) :
              LET call == hist[s].nWrite + 1
                  result == InternalSendTo(buf_len, address, o)
              IN IF result # ERR_IO_PENDING
                   THEN /\ SetHist(s, [nWrite |-> call,
                                       writeRet |-> [hist[s].writeRet EXCEPT
                                                       ![call] = "sync"]]
                                      @@ ReturnedIo(s, "Write", result,
                                                    "send", buf_len, o.n))
                        /\ UNCHANGED sock
                   ELSE
                     \/ \* WatchFileDescriptor fails
                        /\ \E errno \in {"EBADF", "EAGAIN"} :
                             SetHist(s, [nWrite |-> call,
                                         writeRet |-> [hist[s].writeRet EXCEPT
                                                         ![call] = "unwatched"]]
                                        @@ ReturnedIo(s, "Write",
                                             MapSystemError(errno), "send",
                                             buf_len, o.n))
                        /\ UNCHANGED sock
                     \/ /\ SetSock(s, [write_socket_watcher_ |-> TRUE,
                                       write_buf_ |-> call,
                                       write_buf_len_ |-> buf_len,
                                       send_to_address_ |-> address,
                                       write_callback_ |-> call])
                        /\ SetHist(s, [nWrite |-> call,
                                       writeRet |-> [hist[s].writeRet EXCEPT
                                                       ![call] = "pending"]]
                                      @@ ReturnedPending(s, "Write", "send",
                                                         buf_len, o.n,
                                                         address))
  /\ UNCHANGED <<global_socket_count, external_tokens, os_fds, bytes_received,
                 pc>>

\* a faulty DidCompleteWrite that leaves the write watcher registered
DidCompleteWrite_KeepWatcher(s) ==
  \E o \in SendOutcomes(sock[s].write_buf_len_) :
    LET result == InternalSendTo(sock[s].write_buf_len_,
                                 sock[s].send_to_address_, o)
    IN IF result # ERR_IO_PENDING
         THEN /\ SetSock(s, [write_buf_ |-> 0,
                             write_buf_len_ |-> 0,
                             send_to_address_ |-> "null",
                             rv |-> result])
              /\ SetHist(s, ReturnedIo(s, "DidCompleteWrite", result, "send",
                                       sock[s].write_buf_len_, o.n))
              /\ SetPc(s, "DoWriteCallback")
         ELSE /\ SetHist(s, ReturnedIo(s, "DidCompleteWrite", result, "send",
                                       sock[s].write_buf_len_, o.n))
              /\ UNCHANGED <<sock, pc>>

\* a faulty DidCompleteWrite that stops the read watcher too
DidCompleteWrite_StopReadWatcher(s) ==
  \E o \in SendOutcomes(sock[s].write_buf_len_) :
    LET result == InternalSendTo(sock[s].write_buf_len_,
                                 sock[s].send_to_address_, o)
    IN IF result # ERR_IO_PENDING
         THEN /\ SetSock(s, [write_buf_ |-> 0,
                             write_buf_len_ |-> 0,
                             send_to_address_ |-> "null",
                             write_socket_watcher_ |-> FALSE,
                             read_socket_watcher_ |-> FALSE,
                             rv |-> result])
              /\ SetHist(s, ReturnedIo(s, "DidCompleteWrite", result, "send",
                                       sock[s].write_buf_len_, o.n))
              /\ SetPc(s, "DoWriteCallback")
         ELSE /\ SetHist(s, ReturnedIo(s, "DidCompleteWrite", result, "send",
                                       sock[s].write_buf_len_, o.n))
              /\ UNCHANGED <<sock, pc>>

\* lines 692-703, up to the call of DoWriteCallback
DidCompleteWrite(s) ==
  \E o \in SendOutcomes(sock[s].write_buf_len_) :
    LET result == InternalSendTo(sock[s].write_buf_len_,
                                 sock[s].send_to_address_, o)
    IN IF result # ERR_IO_PENDING
         THEN /\ SetSock(s, [write_buf_ |-> 0,
                             write_buf_len_ |-> 0,
                             send_to_address_ |-> "null",
                             write_socket_watcher_ |-> FALSE,
                             rv |-> result])
              /\ SetHist(s, ReturnedIo(s, "DidCompleteWrite", result, "send",
                                       sock[s].write_buf_len_, o.n))
              /\ SetPc(s, "DoWriteCallback")
         ELSE /\ SetHist(s, ReturnedIo(s, "DidCompleteWrite", result, "send",
                                       sock[s].write_buf_len_, o.n))
              /\ UNCHANGED <<sock, pc>>

\* lines 630-633: the write watcher's notification
OnFileCanWriteWithoutBlocking(s) ==
  /\ ~aborted
  /\ pc[s] = "idle"
  /\ IF sock[s].write_callback_ # 0
       THEN DidCompleteWrite(s)
       ELSE /\ SetHist(s, ReturnedIo(s, "OnFileCanWriteWithoutBlocking", OK,
                                     "ignored", 0, 0))
            /\ UNCHANGED <<sock, pc>>
  /\ UNCHANGED <<global_socket_count, external_tokens, os_fds, bytes_received,
                 aborted>>

\* lines 644-651: the callback is moved out of the member and run
DoWriteCallback(s) ==
  /\ ~aborted
  /\ pc[s] = "DoWriteCallback"
  /\ LET callback == sock[s].write_callback_ IN
       /\ SetSock(s, [write_callback_ |-> 0] @@ NoLocals)
       /\ SetHist(s, [writeRuns |-> [hist[s].writeRuns EXCEPT
                                       ![callback] = @ + 1]]
                     @@ Returned(s, "WriteCallback", sock[s].rv))
  /\ SetPc(s, "idle")
  /\ UNCHANGED <<global_socket_count, external_tokens, os_fds, bytes_received,
                 aborted>>

\* a faulty DoReadCallback that runs the callback from the member
DoReadCallbackRun_KeepMember(s) ==
  /\ ~aborted
  /\ pc[s] = "DoReadCallback"
  /\ LET callback == sock[s].read_callback_ IN
       /\ SetSock(s, NoLocals)
       /\ SetHist(s, [readRuns |-> [hist[s].readRuns EXCEPT
                                      ![callback] = @ + 1]]
                     @@ Returned(s, "ReadCallback", sock[s].rv))
  /\ SetPc(s, "ReadCallback")
  /\ UNCHANGED <<global_socket_count, external_tokens, os_fds, bytes_received,
                 aborted>>

\* lines 635-642, up to the start of the callback: the callback is moved out
\* of the member, and it runs until ReadCallbackReturns
DoReadCallbackRun(s) ==
  /\ ~aborted
  /\ pc[s] = "DoReadCallback"
  /\ LET callback == sock[s].read_callback_ IN
       /\ SetSock(s, [read_callback_ |-> 0] @@ NoLocals)
       /\ SetHist(s, [readRuns |-> [hist[s].readRuns EXCEPT
                                      ![callback] = @ + 1]]
                     @@ Returned(s, "ReadCallback", sock[s].rv))
  /\ SetPc(s, "ReadCallback")
  /\ UNCHANGED <<global_socket_count, external_tokens, os_fds, bytes_received,
                 aborted>>

\* lines 641-642, 661-663 and 627-628: the callback returns, and
\* DoReadCallback, DidCompleteRead and the watcher's notification return
\* after it
ReadCallbackReturns(s) ==
  /\ ~aborted
  /\ pc[s] = "ReadCallback"
  /\ SetPc(s, "idle")
  /\ UNCHANGED <<global_socket_count, external_tokens, os_fds, bytes_received,
                 aborted, sock, hist>>

\* lines 644-651, up to the start of the callback
DoWriteCallbackRun(s) ==
  /\ ~aborted
  /\ pc[s] = "DoWriteCallback"
  /\ LET callback == sock[s].write_callback_ IN
       /\ SetSock(s, [write_callback_ |-> 0] @@ NoLocals)
       /\ SetHist(s, [writeRuns |-> [hist[s].writeRuns EXCEPT
                                       ![callback] = @ + 1]]
                     @@ Returned(s, "WriteCallback", sock[s].rv))
  /\ SetPc(s, "WriteCallback")
  /\ UNCHANGED <<global_socket_count, external_tokens, os_fds, bytes_received,
                 aborted>>

\* lines 650-651, 701-703 and 632-633: the callback returns
WriteCallbackReturns(s) ==
  /\ ~aborted
  /\ pc[s] = "WriteCallback"
  /\ SetPc(s, "idle")
  /\ UNCHANGED <<global_socket_count, external_tokens, os_fds, bytes_received,
                 aborted, sock, hist>>

----------------------------------------------------------------------------
(* Bind and Connect *)

\* which setsockopt(2) of SetMulticastOptions the OS refuses, if any
MulticastOutcomes == {"none", "IP_MULTICAST_LOOP", "IP_MULTICAST_TTL",
                      "IP_MULTICAST_IF"}

\* a faulty SetMulticastOptions that sets the TTL before the loopback mode
SetMulticastOptions_TtlFirst(r, refused) ==
  LET loop == IF "SOCKET_OPTION_MULTICAST_LOOP" \notin r.socket_options_
                THEN <<"IP_MULTICAST_LOOP">> ELSE <<>>
      ttl == IF r.multicast_time_to_live_ # IP_DEFAULT_MULTICAST_TTL
               THEN <<"IP_MULTICAST_TTL">> ELSE <<>>
      interface == IF r.multicast_interface_ # 0
                     THEN <<"IP_MULTICAST_IF">> ELSE <<>>
  IN IF ttl # <<>> /\ refused = "IP_MULTICAST_TTL"
       THEN [rv |-> MapSystemError("EACCES"), calls |-> ttl,
             failed |-> "IP_MULTICAST_TTL"]
     ELSE IF loop # <<>> /\ refused = "IP_MULTICAST_LOOP"
       THEN [rv |-> MapSystemError("EACCES"), calls |-> ttl \o loop,
             failed |-> "IP_MULTICAST_LOOP"]
     ELSE IF interface # <<>> /\ r.addr_family_ \notin {"AF_INET", "AF_INET6"}
       THEN [rv |-> ERR_ADDRESS_INVALID, calls |-> ttl \o loop,
             failed |-> "addr_family_"]
     ELSE IF interface # <<>> /\ refused = "IP_MULTICAST_IF"
       THEN [rv |-> MapSystemError("EACCES"),
             calls |-> ttl \o loop \o interface,
             failed |-> "IP_MULTICAST_IF"]
     ELSE [rv |-> OK, calls |-> ttl \o loop \o interface,
           failed |-> "none"]

\* lines 826-883: the result, the setsockopt(2) calls made and the one
\* that failed
SetMulticastOptions(r, refused) ==
  LET loop == IF "SOCKET_OPTION_MULTICAST_LOOP" \notin r.socket_options_
                THEN <<"IP_MULTICAST_LOOP">> ELSE <<>>
      ttl == IF r.multicast_time_to_live_ # IP_DEFAULT_MULTICAST_TTL
               THEN <<"IP_MULTICAST_TTL">> ELSE <<>>
      interface == IF r.multicast_interface_ # 0
                     THEN <<"IP_MULTICAST_IF">> ELSE <<>>
  IN IF loop # <<>> /\ refused = "IP_MULTICAST_LOOP"
       THEN [rv |-> MapSystemError("EACCES"), calls |-> loop,
             failed |-> "IP_MULTICAST_LOOP"]
     ELSE IF ttl # <<>> /\ refused = "IP_MULTICAST_TTL"
       THEN [rv |-> MapSystemError("EACCES"), calls |-> loop \o ttl,
             failed |-> "IP_MULTICAST_TTL"]
     ELSE IF interface # <<>> /\ r.addr_family_ \notin {"AF_INET", "AF_INET6"}
       THEN [rv |-> ERR_ADDRESS_INVALID, calls |-> loop \o ttl,
             failed |-> "addr_family_"]
     ELSE IF interface # <<>> /\ refused = "IP_MULTICAST_IF"
       THEN [rv |-> MapSystemError("EACCES"),
             calls |-> loop \o ttl \o interface,
             failed |-> "IP_MULTICAST_IF"]
     ELSE [rv |-> OK, calls |-> loop \o ttl \o interface,
           failed |-> "none"]

\* what bind(2) can do: 0, or -1 and errno
BindOutcomes == {"none", "EADDRINUSE", "EACCES"}

\* lines 885-901
DoBind(address, errno) ==
  IF ~ToSockAddr(address) THEN ERR_ADDRESS_INVALID
  ELSE IF errno = "none" THEN OK
  ELSE MapSystemError(errno)

\* a faulty Bind that keeps the cached local endpoint
Bind_KeepLocal(s, address) ==
  /\ ~aborted
  /\ pc[s] = "idle"
  /\ sock[s].socket_ # kInvalidSocket
  /\ ~sock[s].is_connected_
  /\ \E refused \in MulticastOutcomes, errno \in BindOutcomes :
       LET m == SetMulticastOptions(sock[s], refused)
           rv2 == DoBind(address, errno)
           calls == IF ToSockAddr(address) THEN m.calls \o <<"bind">>
                    ELSE m.calls
           failed == IF ~ToSockAddr(address) THEN "ToSockAddr"
                     ELSE IF errno # "none" THEN "bind" ELSE "none"
       IN IF m.rv < 0
            THEN /\ SetHist(s, ReturnedCalls(s, "Bind", m.rv, m.calls,
                                             m.failed))
                 /\ UNCHANGED sock
          ELSE IF rv2 < 0
            THEN /\ SetHist(s, ReturnedCalls(s, "Bind", rv2, calls, failed))
                 /\ UNCHANGED sock
          ELSE /\ SetSock(s, [is_connected_ |-> TRUE])
               /\ SetHist(s, ReturnedCalls(s, "Bind", rv2, calls, failed)
                              @@ [bound |-> TRUE, peer |-> "null",
                                  local |-> "null"])
  /\ UNCHANGED <<global_socket_count, external_tokens, os_fds, bytes_received,
                 aborted, pc>>

\* lines 469-485
Bind(s, address) ==
  /\ ~aborted
  /\ pc[s] = "idle"
  /\ sock[s].socket_ # kInvalidSocket
  /\ ~sock[s].is_connected_
  /\ \E refused \in MulticastOutcomes, errno \in BindOutcomes :
       LET m == SetMulticastOptions(sock[s], refused)
           rv2 == DoBind(address, errno)
           calls == IF ToSockAddr(address) THEN m.calls \o <<"bind">>
                    ELSE m.calls
           failed == IF ~ToSockAddr(address) THEN "ToSockAddr"
                     ELSE IF errno # "none" THEN "bind" ELSE "none"
       IN IF m.rv < 0
            THEN /\ SetHist(s, ReturnedCalls(s, "Bind", m.rv, m.calls,
                                             m.failed))
                 /\ UNCHANGED sock
          ELSE IF rv2 < 0
            THEN /\ SetHist(s, ReturnedCalls(s, "Bind", rv2, calls, failed))
                 /\ UNCHANGED sock
          ELSE /\ SetSock(s, [is_connected_ |-> TRUE,
                              local_address_ |-> "null"])
               /\ SetHist(s, ReturnedCalls(s, "Bind", rv2, calls, failed)
                              @@ [bound |-> TRUE, peer |-> "null",
                                  local |-> "null"])
  /\ UNCHANGED <<global_socket_count, external_tokens, os_fds, bytes_received,
                 aborted, pc>>

\* lines 420-428 and 436-449: the multicast options, then InternalConnect up
\* to the random bind
ConnectBegin(s, address) ==
  /\ ~aborted
  /\ pc[s] = "idle"
  /\ sock[s].socket_ # kInvalidSocket
  /\ ~sock[s].is_connected_
  /\ sock[s].remote_address_ = "null"
  /\ \E refused \in MulticastOutcomes :
       LET m == SetMulticastOptions(sock[s], refused)
       IN IF m.rv # OK
            THEN /\ SetHist(s, [randomBinds |-> 0, zeroBinds |-> 0,
                                port |-> -1, bindRv |-> OK]
                               @@ ReturnedCalls(s, "Connect", m.rv, m.calls,
                                                m.failed))
                 /\ UNCHANGED <<sock, pc>>
            ELSE /\ SetHist(s, [randomBinds |-> 0, zeroBinds |-> 0,
                                port |-> -1, bindRv |-> OK,
                                options |-> m.calls])
                 /\ SetSock(s, [address |-> address, i |-> 0, rv |-> 0])
                 /\ SetPc(s, IF sock[s].bind_type_ = "RANDOM_BIND"
                               THEN "RandomBind" ELSE "InternalConnect")
  /\ UNCHANGED <<global_socket_count, external_tokens, os_fds, bytes_received,
                 aborted>>

\* base::RandInt(kPortStart, kPortEnd), at the ends of its range
RandInt(min, max) == {min, max}

\* line 906: the condition of the retry loop
RandomBindRetry_OneMore(i) == i <= kBindRetries

RandomBindRetry(i) == i < kBindRetries

\* a faulty loop that tries another port after any error of bind(2)
RandomBindAttempt_RetryAnyError(s) ==
  /\ ~aborted
  /\ pc[s] = "RandomBind"
  /\ RandomBindRetry(sock[s].i)
  /\ \E port \in RandInt(kPortStart, kPortEnd), errno \in BindOutcomes :
       LET rv == DoBind("0.0.0.0", errno)
       IN /\ IF rv = OK
               THEN /\ SetSock(s, [rv |-> rv])
                    /\ SetPc(s, "InternalConnect")
               ELSE /\ SetSock(s, [i |-> sock[s].i + 1])
                    /\ UNCHANGED pc
          /\ SetHist(s, [randomBinds |-> hist[s].randomBinds + 1,
                         port |-> port, bindRv |-> rv])
  /\ UNCHANGED <<global_socket_count, external_tokens, os_fds, bytes_received,
                 aborted>>

\* lines 906-910: one turn of the retry loop
RandomBindAttempt(s) ==
  /\ ~aborted
  /\ pc[s] = "RandomBind"
  /\ RandomBindRetry(sock[s].i)
  /\ \E port \in RandInt(kPortStart, kPortEnd), errno \in BindOutcomes :
       LET rv == DoBind("0.0.0.0", errno)
       IN /\ IF rv # ERR_ADDRESS_IN_USE
               THEN /\ SetSock(s, [rv |-> rv])
                    /\ SetPc(s, "InternalConnect")
               ELSE /\ SetSock(s, [i |-> sock[s].i + 1])
                    /\ UNCHANGED pc
          /\ SetHist(s, [randomBinds |-> hist[s].randomBinds + 1,
                         port |-> port, bindRv |-> rv])
  /\ UNCHANGED <<global_socket_count, external_tokens, os_fds, bytes_received,
                 aborted>>

\* line 912: the retries are used up, port 0
RandomBindFallback(s) ==
  /\ ~aborted
  /\ pc[s] = "RandomBind"
  /\ ~RandomBindRetry(sock[s].i)
  /\ \E errno \in BindOutcomes :
       LET rv == DoBind("0.0.0.0", errno)
       IN /\ SetSock(s, [rv |-> rv])
          /\ SetHist(s, [zeroBinds |-> hist[s].zeroBinds + 1, port |-> 0,
                         bindRv |-> rv])
  /\ SetPc(s, "InternalConnect")
  /\ UNCHANGED <<global_socket_count, external_tokens, os_fds, bytes_received,
                 aborted>>

\* what connect(2) can do: 0, or -1 and errno
ConnectOutcomes == {"none", "ECONNREFUSED"}

\* lines 452-466, as the result, the remote endpoint to cache, and whether
\* connect(2) was called and what failed
InternalConnectRest(rv, address, errno) ==
  IF rv < 0
    THEN [rv |-> rv, remote |-> "null", calls |-> <<>>, failed |-> "bind"]
  ELSE IF ~ToSockAddr(address)
    THEN [rv |-> ERR_ADDRESS_INVALID, remote |-> "null", calls |-> <<>>,
          failed |-> "ToSockAddr"]
  ELSE IF errno # "none"
    THEN [rv |-> MapSystemError(errno), remote |-> "null",
          calls |-> <<"connect">>, failed |-> "connect"]
  ELSE [rv |-> 0, remote |-> address, calls |-> <<"connect">>,
        failed |-> "none"]

\* a faulty Connect that caches the endpoint before connect(2) is called
ConnectFinish_CacheFirst(s) ==
  /\ ~aborted
  /\ pc[s] = "InternalConnect"
  /\ \E errno \in ConnectOutcomes :
       LET x == InternalConnectRest(sock[s].rv, sock[s].address, errno)
       IN /\ SetSock(s,
               (IF sock[s].rv >= 0 THEN [remote_address_ |-> sock[s].address]
                ELSE [remote_address_ |-> sock[s].remote_address_])
               @@ [is_connected_ |-> (x.rv = OK)]
               @@ (IF x.rv # OK THEN [tag_ |-> "SocketTag()"]
                   ELSE [tag_ |-> sock[s].tag_])
               @@ NoLocals)
          /\ SetHist(s, [options |-> <<>>]
                         @@ ReturnedCalls(s, "Connect", x.rv,
                              hist[s].options \o x.calls, x.failed)
                         @@ (IF x.rv = OK
                               THEN [bound |-> TRUE, peer |-> sock[s].address,
                                     local |-> "null"]
                               ELSE [bound |-> hist[s].bound]))
  /\ SetPc(s, "idle")
  /\ UNCHANGED <<global_socket_count, external_tokens, os_fds, bytes_received,
                 aborted>>

\* lines 452-466 and 429-433
ConnectFinish(s) ==
  /\ ~aborted
  /\ pc[s] = "InternalConnect"
  /\ \E errno \in ConnectOutcomes :
       LET x == InternalConnectRest(sock[s].rv, sock[s].address, errno)
       IN /\ SetSock(s,
               (IF x.remote # "null" THEN [remote_address_ |-> x.remote]
                ELSE [remote_address_ |-> sock[s].remote_address_])
               @@ [is_connected_ |-> (x.rv = OK)]
               @@ (IF x.rv # OK THEN [tag_ |-> "SocketTag()"]
                   ELSE [tag_ |-> sock[s].tag_])
               @@ NoLocals)
          /\ SetHist(s, [options |-> <<>>]
                         @@ ReturnedCalls(s, "Connect", x.rv,
                              hist[s].options \o x.calls, x.failed)
                         @@ (IF x.rv = OK
                               THEN [bound |-> TRUE, peer |-> sock[s].address,
                                     local |-> "null"]
                               ELSE [bound |-> hist[s].bound]))
  /\ SetPc(s, "idle")
  /\ UNCHANGED <<global_socket_count, external_tokens, os_fds, bytes_received,
                 aborted>>

----------------------------------------------------------------------------
(* Flags *)

\* lines 1075-1077
SetDontClose(s, dont_close) ==
  /\ ~aborted
  /\ pc[s] = "idle"
  /\ SetSock(s, [dont_close_ |-> dont_close])
  /\ UNCHANGED <<global_socket_count, external_tokens, os_fds, bytes_received,
                 aborted, pc, hist>>

\* lines 1054-1060: the tag is applied to an open descriptor and kept
ApplySocketTag(s, tag) ==
  /\ ~aborted
  /\ pc[s] = "idle"
  /\ SetSock(s, [tag_ |-> tag])
  /\ UNCHANGED <<global_socket_count, external_tokens, os_fds, bytes_received,
                 aborted, pc, hist>>

\* enable_experimental_recv_optimization(), allowed on a closed socket
EnableExperimentalRecvOptimization(s) ==
  /\ ~aborted
  /\ pc[s] = "idle"
  /\ sock[s].socket_ = kInvalidSocket
  /\ SetSock(s, [experimental_recv_optimization_enabled_ |-> TRUE])
  /\ UNCHANGED <<global_socket_count, external_tokens, os_fds, bytes_received,
                 aborted, pc, hist>>

----------------------------------------------------------------------------
(* Other users of the admission gate in the process *)

ExternalAcquire ==
  /\ ~aborted
  /\ TryAcquireGlobalUDPSocketCount
  /\ global_socket_count' = global_socket_count + 1
  /\ external_tokens' = external_tokens + 1
  /\ UNCHANGED <<os_fds, bytes_received, aborted, pc, sock, hist>>

ExternalRelease ==
  /\ ~aborted
  /\ external_tokens > 0
  /\ global_socket_count' = global_socket_count - 1
  /\ external_tokens' = external_tokens - 1
  /\ UNCHANGED <<os_fds, bytes_received, aborted, pc, sock, hist>>

----------------------------------------------------------------------------
(* Addresses *)

\* what getpeername(2) / getsockname(2) can do: the address of the
\* descriptor, in a form FromSockAddr parses or not, or -1 and errno
PeerNameOutcomes ==
  [endpoint : {"peer1", "peer2"}, errno : {"none"}, parses : BOOLEAN]
  \cup [endpoint : {"null"}, errno : {"ENOTCONN"}, parses : {TRUE}]

SockNameOutcomes ==
  [endpoint : {"local1", "local2"}, errno : {"none"}, parses : BOOLEAN]
  \cup [endpoint : {"null"}, errno : {"EBADF"}, parses : {TRUE}]

\* lines 288-306
GetPeerAddress(s) ==
  /\ ~aborted
  /\ pc[s] = "idle"
  /\ IF ~sock[s].is_connected_
       THEN /\ SetHist(s, ReturnedIo(s, "GetPeerAddress",
                                     ERR_SOCKET_NOT_CONNECTED, "unwritten",
                                     0, 0))
            /\ UNCHANGED sock
     ELSE IF sock[s].remote_address_ = "null"
       THEN \E o \in PeerNameOutcomes :
              IF o.errno # "none"
                THEN /\ SetHist(s, ReturnedIo(s, "GetPeerAddress",
                                              MapSystemError(o.errno),
                                              "unwritten", 0, 0))
                     /\ UNCHANGED sock
              ELSE IF ~o.parses
                THEN /\ SetHist(s, ReturnedIo(s, "GetPeerAddress",
                                              ERR_ADDRESS_INVALID,
                                              "unwritten", 0, 0))
                     /\ UNCHANGED sock
              ELSE /\ SetSock(s, [remote_address_ |-> o.endpoint])
                   /\ SetHist(s, ReturnedIo(s, "GetPeerAddress", OK,
                                            o.endpoint, 0, 0))
     ELSE /\ SetHist(s, ReturnedIo(s, "GetPeerAddress", OK,
                                   sock[s].remote_address_, 0, 0))
          /\ UNCHANGED sock
  /\ UNCHANGED <<global_socket_count, external_tokens, os_fds, bytes_received,
                 aborted, pc>>

\* observation: the endpoint of the first GetLocalAddress that succeeds
FirstLocal(s, endpoint) ==
  [local |-> IF hist[s].local = "null" THEN endpoint ELSE hist[s].local]

\* a faulty GetLocalAddress that asks the system every time
GetLocalAddress_NoCache(s) ==
  /\ ~aborted
  /\ pc[s] = "idle"
  /\ IF ~sock[s].is_connected_
       THEN /\ SetHist(s, ReturnedIo(s, "GetLocalAddress",
                                     ERR_SOCKET_NOT_CONNECTED, "unwritten",
                                     0, 0))
            /\ UNCHANGED sock
     ELSE \E o \in SockNameOutcomes :
            IF o.errno # "none"
              THEN /\ SetHist(s, ReturnedIo(s, "GetLocalAddress",
                                            MapSystemError(o.errno),
                                            "unwritten", 0, 0))
                   /\ UNCHANGED sock
            ELSE IF ~o.parses
              THEN /\ SetHist(s, ReturnedIo(s, "GetLocalAddress",
                                            ERR_ADDRESS_INVALID,
                                            "unwritten", 0, 0))
                   /\ UNCHANGED sock
            ELSE /\ SetSock(s, [local_address_ |-> o.endpoint])
                 /\ SetHist(s, ReturnedIo(s, "GetLocalAddress", OK,
                                          o.endpoint, 0, 0)
                               @@ FirstLocal(s, o.endpoint))
  /\ UNCHANGED <<global_socket_count, external_tokens, os_fds, bytes_received,
                 aborted, pc>>

\* lines 308-329
GetLocalAddress(s) ==
  /\ ~aborted
  /\ pc[s] = "idle"
  /\ IF ~sock[s].is_connected_
       THEN /\ SetHist(s, ReturnedIo(s, "GetLocalAddress",
                                     ERR_SOCKET_NOT_CONNECTED, "unwritten",
                                     0, 0))
            /\ UNCHANGED sock
     ELSE IF sock[s].local_address_ = "null"
       THEN \E o \in SockNameOutcomes :
              IF o.errno # "none"
                THEN /\ SetHist(s, ReturnedIo(s, "GetLocalAddress",
                                              MapSystemError(o.errno),
                                              "unwritten", 0, 0))
                     /\ UNCHANGED sock
              ELSE IF ~o.parses
                THEN /\ SetHist(s, ReturnedIo(s, "GetLocalAddress",
                                              ERR_ADDRESS_INVALID,
                                              "unwritten", 0, 0))
                     /\ UNCHANGED sock
              ELSE /\ SetSock(s, [local_address_ |-> o.endpoint])
                   /\ SetHist(s, ReturnedIo(s, "GetLocalAddress", OK,
                                            o.endpoint, 0, 0)
                                 @@ FirstLocal(s, o.endpoint))
     ELSE /\ SetHist(s, ReturnedIo(s, "GetLocalAddress", OK,
                                   sock[s].local_address_, 0, 0)
                        @@ FirstLocal(s, sock[s].local_address_))
          /\ UNCHANGED sock
  /\ UNCHANGED <<global_socket_count, external_tokens, os_fds, bytes_received,
                 aborted, pc>>

----------------------------------------------------------------------------
(* Multicast options *)

\* a faulty setter that tests the upper end of the range only
SetMulticastTimeToLive_NoLowerEnd(s, time_to_live) ==
  /\ ~aborted
  /\ pc[s] = "idle"
  /\ IF sock[s].is_connected_
       THEN /\ SetHist(s, ReturnedIo(s, "SetMulticastTimeToLive",
                                     ERR_SOCKET_IS_CONNECTED, "none", 0,
                                     time_to_live))
            /\ UNCHANGED sock
     ELSE IF time_to_live > 255
       THEN /\ SetHist(s, ReturnedIo(s, "SetMulticastTimeToLive",
                                     ERR_INVALID_ARGUMENT, "none", 0,
                                     time_to_live))
            /\ UNCHANGED sock
     ELSE /\ SetSock(s, [multicast_time_to_live_ |-> time_to_live])
          /\ SetHist(s, ReturnedIo(s, "SetMulticastTimeToLive", OK, "none",
                                   0, time_to_live))
  /\ UNCHANGED <<global_socket_count, external_tokens, os_fds, bytes_received,
                 aborted, pc>>

\* a faulty setter that does not ask whether the socket is connected
SetMulticastTimeToLive_Unconditional(s, time_to_live) ==
  /\ ~aborted
  /\ pc[s] = "idle"
  /\ IF time_to_live < 0 \/ time_to_live > 255
       THEN /\ SetHist(s, ReturnedIo(s, "SetMulticastTimeToLive",
                                     ERR_INVALID_ARGUMENT, "none", 0,
                                     time_to_live))
            /\ UNCHANGED sock
       ELSE /\ SetSock(s, [multicast_time_to_live_ |-> time_to_live])
            /\ SetHist(s, ReturnedIo(s, "SetMulticastTimeToLive", OK, "none",
                                     0, time_to_live))
  /\ UNCHANGED <<global_socket_count, external_tokens, os_fds, bytes_received,
                 aborted, pc>>

\* lines 1006-1015
SetMulticastTimeToLive(s, time_to_live) ==
  /\ ~aborted
  /\ pc[s] = "idle"
  /\ IF sock[s].is_connected_
       THEN /\ SetHist(s, ReturnedIo(s, "SetMulticastTimeToLive",
                                     ERR_SOCKET_IS_CONNECTED, "none", 0,
                                     time_to_live))
            /\ UNCHANGED sock
     ELSE IF time_to_live < 0 \/ time_to_live > 255
       THEN /\ SetHist(s, ReturnedIo(s, "SetMulticastTimeToLive",
                                     ERR_INVALID_ARGUMENT, "none", 0,
                                     time_to_live))
            /\ UNCHANGED sock
     ELSE /\ SetSock(s, [multicast_time_to_live_ |-> time_to_live])
          /\ SetHist(s, ReturnedIo(s, "SetMulticastTimeToLive", OK, "none",
                                   0, time_to_live))
  /\ UNCHANGED <<global_socket_count, external_tokens, os_fds, bytes_received,
                 aborted, pc>>

\* lines 998-1004
SetMulticastInterface(s, interface_index) ==
  /\ ~aborted
  /\ pc[s] = "idle"
  /\ IF sock[s].is_connected_
       THEN /\ SetHist(s, ReturnedIo(s, "SetMulticastInterface",
                                     ERR_SOCKET_IS_CONNECTED, "none", 0,
                                     interface_index))
            /\ UNCHANGED sock
       ELSE /\ SetSock(s, [multicast_interface_ |-> interface_index])
            /\ SetHist(s, ReturnedIo(s, "SetMulticastInterface", OK, "none",
                                     0, interface_index))
  /\ UNCHANGED <<global_socket_count, external_tokens, os_fds, bytes_received,
                 aborted, pc>>

\* lines 1017-1027
SetMulticastLoopbackMode(s, loopback) ==
  /\ ~aborted
  /\ pc[s] = "idle"
  /\ IF sock[s].is_connected_
       THEN /\ SetHist(s, ReturnedIo(s, "SetMulticastLoopbackMode",
                                     ERR_SOCKET_IS_CONNECTED, "none", 0,
                                     IF loopback THEN 1 ELSE 0))
            /\ UNCHANGED sock
       ELSE /\ SetSock(s, [socket_options_ |->
                             IF loopback
                               THEN sock[s].socket_options_
                                    \cup {"SOCKET_OPTION_MULTICAST_LOOP"}
                               ELSE sock[s].socket_options_
                                    \ {"SOCKET_OPTION_MULTICAST_LOOP"}])
            /\ SetHist(s, ReturnedIo(s, "SetMulticastLoopbackMode", OK,
                                     "none", 0, IF loopback THEN 1 ELSE 0))
  /\ UNCHANGED <<global_socket_count, external_tokens, os_fds, bytes_received,
                 aborted, pc>>

\* the code points a caller passes: no change, the default, and two marks
DSCP_NO_CHANGE == -1
DiffServCodePoints == {DSCP_NO_CHANGE, 0, 8, 46}

\* what setsockopt(2) can do with IP_TOS and with IPV6_TCLASS on the
\* descriptor of r: -1 is a failure, and without a descriptor both fail
TosOutcomes(r) ==
  IF r.socket_ = kInvalidSocket
    THEN [tos : {-1}, tclass : {-1}, errno : {"EBADF"}]
    ELSE [tos : {0, -1}, tclass : {0, -1}, errno : {"ENOPROTOOPT", "EACCES"}]

\* a faulty SetDiffServCodePoint that keeps the failure of IP_TOS
SetDiffServCodePointCalls_KeepFirst(r, dscp, o) ==
  IF dscp = DSCP_NO_CHANGE
    THEN [rv |-> OK, calls |-> <<>>, failed |-> "none", n |-> 0]
    ELSE
      LET dscp_and_ecn == dscp * 4
          v6 == r.addr_family_ = "AF_INET6"
          rv == IF v6 /\ o.tos >= 0 THEN o.tclass ELSE o.tos
      IN [rv |-> IF rv < 0 THEN MapSystemError(o.errno) ELSE OK,
          calls |-> IF v6 THEN <<"IP_TOS", "IPV6_TCLASS">> ELSE <<"IP_TOS">>,
          failed |-> IF v6 /\ o.tos < 0 /\ o.tclass < 0 THEN "both"
                     ELSE IF v6 /\ o.tclass < 0 THEN "IPV6_TCLASS"
                     ELSE IF o.tos < 0 THEN "IP_TOS"
                     ELSE "none",
          n |-> dscp_and_ecn]

\* lines 1029-1048: the result, the setsockopt(2) calls made with
\* dscp << 2, and which of them failed
SetDiffServCodePointCalls(r, dscp, o) ==
  IF dscp = DSCP_NO_CHANGE
    THEN [rv |-> OK, calls |-> <<>>, failed |-> "none", n |-> 0]
    ELSE
      LET dscp_and_ecn == dscp * 4
          v6 == r.addr_family_ = "AF_INET6"
          rv == IF v6 THEN o.tclass ELSE o.tos
      IN [rv |-> IF rv < 0 THEN MapSystemError(o.errno) ELSE OK,
          calls |-> IF v6 THEN <<"IP_TOS", "IPV6_TCLASS">> ELSE <<"IP_TOS">>,
          failed |-> IF v6 /\ o.tos < 0 /\ o.tclass < 0 THEN "both"
                     ELSE IF v6 /\ o.tclass < 0 THEN "IPV6_TCLASS"
                     ELSE IF o.tos < 0 THEN "IP_TOS"
                     ELSE "none",
          n |-> dscp_and_ecn]

SetDiffServCodePoint(s, dscp) ==
  /\ ~aborted
  /\ pc[s] = "idle"
  /\ \E o \in TosOutcomes(sock[s]) :
       LET x == SetDiffServCodePointCalls(sock[s], dscp, o) IN
         SetHist(s, [ret |-> [op |-> "SetDiffServCodePoint", rv |-> x.rv,
                              path |-> "none", len |-> dscp, n |-> x.n,
                              address |-> "none", calls |-> x.calls,
                              failed |-> x.failed]])
  /\ UNCHANGED <<global_socket_count, external_tokens, os_fds, bytes_received,
                 aborted, pc, sock>>

----------------------------------------------------------------------------
(* Specifications *)

\* GateCapacity + 1 sockets on their own sequences, opening and closing
Next ==
  \E s \in Sockets :
    \/ OpenAcquire(s, "ADDRESS_FAMILY_IPV4")
    \/ OpenCreate(s)
    \/ OpenFinish(s)
    \/ CloseBegin(s)
    \/ CloseFinish(s)

Spec == Init /\ [][Next]_vars

\* one socket with the default bind policy, connecting, reading and
\* writing; the received bytes go straight to the process-wide counter
InitIo ==
  /\ InitCommon
  /\ sock = [s \in Sockets |-> UDPSocketPosix("DEFAULT_BIND", TRUE)]

NextIo ==
  \/ OpenAcquire(TheSocket, "ADDRESS_FAMILY_IPV4")
  \/ OpenCreate(TheSocket)
  \/ OpenFinish(TheSocket)
  \/ CloseBegin(TheSocket)
  \/ CloseFinish(TheSocket)
  \/ EnableExperimentalRecvOptimization(TheSocket)
  \/ ConnectBegin(TheSocket, "peer1")
  \/ ConnectFinish(TheSocket)
  \/ \E buf_len \in 1 .. MaxLen, address \in BOOLEAN :
       RecvFrom(TheSocket, buf_len, address)
  \/ OnFileCanReadWithoutBlocking(TheSocket)
  \/ DoReadCallback(TheSocket)
  \/ \E buf_len \in 1 .. MaxLen, address \in {"null", "peer1", "invalid"} :
       SendToOrWrite(TheSocket, buf_len, address)
  \/ OnFileCanWriteWithoutBlocking(TheSocket)
  \/ DoWriteCallback(TheSocket)

SpecIo == InitIo /\ [][NextIo]_vars

\* one socket with either bind policy, bound and connected and closed, the
\* gate shared with the rest of the process
InitBind ==
  /\ InitCommon
  /\ \E bind_type \in {"DEFAULT_BIND", "RANDOM_BIND"} :
       sock = [s \in Sockets |-> UDPSocketPosix(bind_type, FALSE)]

NextBind ==
  \/ \E address_family \in AddressFamilies :
       OpenAcquire(TheSocket, address_family)
  \/ OpenCreate(TheSocket)
  \/ OpenFinish(TheSocket)
  \/ CloseBegin(TheSocket)
  \/ CloseFinish(TheSocket)
  \/ \E address \in {"peer1", "peer2", "invalid"} : Bind(TheSocket, address)
  \/ \E address \in {"peer1", "peer2", "invalid"} :
       ConnectBegin(TheSocket, address)
  \/ RandomBindAttempt(TheSocket)
  \/ RandomBindFallback(TheSocket)
  \/ ConnectFinish(TheSocket)
  \/ \E dont_close \in BOOLEAN : SetDontClose(TheSocket, dont_close)
  \/ ExternalAcquire
  \/ ExternalRelease

SpecBind == InitBind /\ [][NextBind]_vars

\* one socket with the default bind policy: its addresses, over Open,
\* Bind, Connect, Close, reads, writes and an option call
InitAddr ==
  /\ InitCommon
  /\ sock = [s \in Sockets |-> UDPSocketPosix("DEFAULT_BIND", TRUE)]

\* the values SetMulticastTimeToLive is called with: the ends of the range
\* and their neighbours outside
TimeToLives == {-1, 0, 255, 256}

NextAddr ==
  \/ OpenAcquire(TheSocket, "ADDRESS_FAMILY_IPV4")
  \/ OpenCreate(TheSocket)
  \/ OpenFinish(TheSocket)
  \/ CloseBegin(TheSocket)
  \/ CloseFinish(TheSocket)
  \/ Bind(TheSocket, "local1")
  \/ \E address \in {"peer1", "peer2"} : ConnectBegin(TheSocket, address)
  \/ ConnectFinish(TheSocket)
  \/ GetPeerAddress(TheSocket)
  \/ GetLocalAddress(TheSocket)
  \/ SetMulticastTimeToLive(TheSocket, IP_DEFAULT_MULTICAST_TTL)
  \/ RecvFrom(TheSocket, 1, FALSE)
  \/ OnFileCanReadWithoutBlocking(TheSocket)
  \/ DoReadCallback(TheSocket)
  \/ SendToOrWrite(TheSocket, 1, "null")
  \/ OnFileCanWriteWithoutBlocking(TheSocket)
  \/ DoWriteCallback(TheSocket)

SpecAddr == InitAddr /\ [][NextAddr]_vars

\* one socket with the default bind policy: its multicast TTL, over Open,
\* Bind, Connect and Close
NextTtl ==
  \/ OpenAcquire(TheSocket, "ADDRESS_FAMILY_IPV4")
  \/ OpenCreate(TheSocket)
  \/ OpenFinish(TheSocket)
  \/ CloseBegin(TheSocket)
  \/ CloseFinish(TheSocket)
  \/ Bind(TheSocket, "local1")
  \/ ConnectBegin(TheSocket, "peer1")
  \/ ConnectFinish(TheSocket)
  \/ \E time_to_live \in TimeToLives :
       SetMulticastTimeToLive(TheSocket, time_to_live)

SpecTtl == InitAddr /\ [][NextTtl]_vars

\* one socket and its multicast options: set while not connected, applied
\* by Bind and Connect; GetLocalAddress fills the cache that Bind clears
NextOpt ==
  \/ OpenAcquire(TheSocket, "ADDRESS_FAMILY_IPV4")
  \/ OpenCreate(TheSocket)
  \/ OpenFinish(TheSocket)
  \/ CloseBegin(TheSocket)
  \/ CloseFinish(TheSocket)
  \/ \E loopback \in BOOLEAN : SetMulticastLoopbackMode(TheSocket, loopback)
  \/ \E time_to_live \in {0, IP_DEFAULT_MULTICAST_TTL} :
       SetMulticastTimeToLive(TheSocket, time_to_live)
  \/ \E interface_index \in {0, 1} :
       SetMulticastInterface(TheSocket, interface_index)
  \/ \E address \in {"local1", "invalid"} : Bind(TheSocket, address)
  \/ \E address \in {"peer1", "invalid"} : ConnectBegin(TheSocket, address)
  \/ ConnectFinish(TheSocket)
  \/ GetLocalAddress(TheSocket)

SpecOpt == InitAddr /\ [][NextOpt]_vars

----------------------------------------------------------------------------
(* Properties of the admission gate and of Open / Close (Spec)             *)

OpenReturned(s, rv) ==
  pc[s] = "idle" /\ hist[s].ret.op = "Open" /\ hist[s].ret.rv = rv

\* every socket's latest call is an Open, and it has returned
AllOpensReturned ==
  \A s \in Sockets : pc[s] = "idle" /\ hist[s].ret.op = "Open"

TokenHolders == {s \in Sockets : TokensHeldBy(s) > 0}

RECURSIVE SumTokens(_)
SumTokens(S) ==
  IF S = {} THEN 0
  ELSE LET s == CHOOSE x \in S : TRUE
       IN TokensHeldBy(s) + SumTokens(S \ {s})

ExactlyOneExhausted ==
  /\ Cardinality({s \in Sockets :
                    OpenReturned(s, ERR_INSUFFICIENT_RESOURCES)}) = 1
  /\ Cardinality({s \in Sockets : OpenReturned(s, OK)}) = GateCapacity

CloseStarts(s) == pc[s] = "idle" /\ pc'[s] = "Close_released"

\* an Open of socket s is refused by the gate in this step
OpenDenied(s) ==
  /\ pc[s] = "idle"
  /\ pc'[s] = "idle"
  /\ hist'[s] # hist[s]
  /\ hist'[s].ret.op = "Open"
  /\ hist'[s].ret.rv = ERR_INSUFFICIENT_RESOURCES

\* C2: the Close of an open socket gives its capacity back to the gate, a
\* full gate is no longer full after it, and an Open is refused only while
\* the gate is full: the Open that follows the Close is admitted.
C2_CloseFreesCapacity ==
  [][ \A s \in Sockets :
        /\ CloseStarts(s) =>
             /\ sock[s].owned_socket_count_
             /\ global_socket_count' = global_socket_count - 1
             /\ global_socket_count' < GateCapacity
        /\ OpenDenied(s) => global_socket_count = GateCapacity ]_vars

\* a socket that was refused at a full gate holds a token after another
\* socket was closed
C2_Witness ==
  \E s1, s2 \in Sockets :
    /\ s1 # s2
    /\ pc[s1] = "idle"
    /\ hist[s1].ret.op = "Close"
    /\ sock[s1].socket_hash_ # 0
    /\ OpenReturned(s2, OK)
    /\ sock[s2].owned_socket_count_
    /\ global_socket_count = GateCapacity

\* C3: an Open that the gate refuses returns ERR_INSUFFICIENT_RESOURCES
\* with the socket still closed, no descriptor created, and no field of any
\* socket, nor the gate, changed.
C3_DeniedOpenChangesNothing ==
  [][ \A s \in Sockets :
        OpenDenied(s) =>
          /\ sock' = sock
          /\ os_fds' = os_fds
          /\ global_socket_count' = global_socket_count
          /\ sock'[s].socket_ = kInvalidSocket
          /\ (2 + s) \notin os_fds' ]_vars

C3_Witness ==
  \E s \in Sockets :
    /\ OpenReturned(s, ERR_INSUFFICIENT_RESOURCES)
    /\ sock[s].socket_ = kInvalidSocket
    /\ sock[s].addr_family_ = "AF_UNSPEC"
    /\ global_socket_count = GateCapacity

\* C4: between calls a socket holds a token exactly when it has a
\* descriptor, it never holds two, the gate counts exactly the tokens held,
\* and an Open that failed, on any of its paths, leaves the socket closed
\* and without a token.
C4_TokenIffDescriptor ==
  /\ global_socket_count = external_tokens + SumTokens(Sockets)
  /\ \A s \in Sockets :
       /\ TokensHeldBy(s) <= 1
       /\ pc[s] = "idle" =>
            /\ ~sock[s].open_token
            /\ sock[s].owned_socket_count_
                 <=> sock[s].socket_ # kInvalidSocket
            /\ sock[s].socket_ # kInvalidSocket
                 <=> sock[s].socket_ \in os_fds
       /\ (pc[s] = "idle" /\ hist[s].ret.op = "Open" /\ hist[s].ret.rv # OK) =>
            /\ sock[s].socket_ = kInvalidSocket
            /\ TokensHeldBy(s) = 0
            /\ (2 + s) \notin os_fds

\* an Open refused by the gate, and an Open whose SetNonBlocking failed
C4_Witness ==
  \E s1, s2 \in Sockets :
    /\ OpenReturned(s1, ERR_INSUFFICIENT_RESOURCES)
    /\ OpenReturned(s2, ERR_ACCESS_DENIED)
    /\ sock[s2].socket_hash_ # 0
    /\ global_socket_count = 0

----------------------------------------------------------------------------
(* Properties of Read / Write and their completion (SpecIo)                *)

Calls == 1 .. MaxOps

\* the calls that returned ERR_IO_PENDING with their callback stored and
\* whose callback has neither run nor been dropped by a Close
PendingReads(s) ==
  {n \in Calls : hist[s].readRet[n] = "pending" /\ hist[s].readRuns[n] = 0}

PendingWrites(s) ==
  {n \in Calls : hist[s].writeRet[n] = "pending" /\ hist[s].writeRuns[n] = 0}

C5_AtMostOnePending ==
  /\ ~aborted =>
       \A s \in Sockets :
         /\ Cardinality(PendingReads(s)) <= 1
         /\ Cardinality(PendingWrites(s)) <= 1
         /\ PendingReads(s) = {sock[s].read_callback_} \ {0}
         /\ PendingWrites(s) = {sock[s].write_callback_} \ {0}
  \* the abort is that of a call issued while one was pending
  /\ aborted =>
       \E s \in Sockets :
         sock[s].read_callback_ # 0 \/ sock[s].write_callback_ # 0

C5_NoCallAcceptedWhilePending ==
  \A s \in Sockets :
    /\ sock[s].read_callback_ # 0 =>
         /\ hist'[s].nRead = hist[s].nRead
         /\ sock'[s].read_callback_ \in {0, sock[s].read_callback_}
    /\ sock[s].write_callback_ # 0 =>
         /\ hist'[s].nWrite = hist[s].nWrite
         /\ sock'[s].write_callback_ \in {0, sock[s].write_callback_}

\* C5: while a read is pending no further Read / RecvFrom is accepted, and
\* while a write is pending no further Write / SendTo: such a call ends in
\* the abort. In every state that is not aborted at most one read and at
\* most one write are pending, the ones whose callbacks the socket stores.
C5_SingleOutstanding ==
  []C5_AtMostOnePending /\ [][C5_NoCallAcceptedWhilePending]_vars

\* the abort of a Read issued while a read was pending
C5_Witness ==
  /\ aborted
  /\ sock[TheSocket].read_callback_ # 0
  /\ sock[TheSocket].write_callback_ = 0

\* C6: the callback of a call that a Close found pending is never run, not
\* by the Close and not by a later notification of a watcher, and a closed
\* socket stores no pending state: no buffer, no callback, no watcher.
C6_ClosedDropsPending ==
  \A s \in Sockets :
    /\ \A n \in Calls :
         /\ hist[s].readRet[n] = "dropped" => hist[s].readRuns[n] = 0
         /\ hist[s].writeRet[n] = "dropped" => hist[s].writeRuns[n] = 0
    /\ (pc[s] = "idle" /\ sock[s].socket_ = kInvalidSocket) =>
         /\ sock[s].read_callback_ = 0
         /\ sock[s].write_callback_ = 0
         /\ sock[s].read_buf_ = 0
         /\ sock[s].write_buf_ = 0
         /\ ~sock[s].read_socket_watcher_
         /\ ~sock[s].write_socket_watcher_
         /\ PendingReads(s) = {}
         /\ PendingWrites(s) = {}

\* a read and a write were dropped by a Close, and the socket is open again
C6_Witness ==
  /\ hist[TheSocket].readRet[1] = "dropped"
  /\ hist[TheSocket].writeRet[1] = "dropped"
  /\ sock[TheSocket].socket_ # kInvalidSocket
  /\ pc[TheSocket] = "idle"

C7_Counts ==
  \A s \in Sockets :
    /\ \A n \in Calls :
         /\ hist[s].readRuns[n] <= 1
         /\ hist[s].writeRuns[n] <= 1
         /\ hist[s].readRuns[n] = 1 => hist[s].readRet[n] = "pending"
         /\ hist[s].writeRuns[n] = 1 => hist[s].writeRet[n] = "pending"
    \* a retry that completed is followed by the invocation
    /\ ( /\ hist[s].ret.op = "DidCompleteRead"
         /\ hist[s].ret.rv # ERR_IO_PENDING ) =>
           /\ pc[s] = "DoReadCallback"
           /\ sock[s].socket_ # kInvalidSocket
    /\ ( /\ hist[s].ret.op = "DidCompleteWrite"
         /\ hist[s].ret.rv # ERR_IO_PENDING ) =>
           /\ pc[s] = "DoWriteCallback"
           /\ sock[s].socket_ # kInvalidSocket
    /\ pc[s] = "DoReadCallback" =>
         /\ sock[s].read_callback_ \in PendingReads(s)
         /\ sock[s].read_buf_ = 0
         /\ sock[s].read_buf_len_ = 0
         /\ ~sock[s].read_socket_watcher_
    /\ pc[s] = "DoWriteCallback" =>
         /\ sock[s].write_callback_ \in PendingWrites(s)
         /\ sock[s].write_buf_ = 0
         /\ sock[s].write_buf_len_ = 0
         /\ ~sock[s].write_socket_watcher_

C7_Invocation ==
  \A s \in Sockets :
    /\ (pc[s] = "DoReadCallback" /\ pc'[s] # pc[s]) =>
         LET callback == sock[s].read_callback_ IN
           /\ hist'[s].readRuns =
                [hist[s].readRuns EXCEPT ![callback] = 1]
           /\ hist'[s].ret.op = "ReadCallback"
           /\ hist'[s].ret.rv = hist[s].ret.rv
           /\ sock'[s].read_callback_ = 0
           /\ sock'[s].read_buf_ = 0
           /\ ~sock'[s].read_socket_watcher_
    /\ (pc[s] = "DoWriteCallback" /\ pc'[s] # pc[s]) =>
         LET callback == sock[s].write_callback_ IN
           /\ hist'[s].writeRuns =
                [hist[s].writeRuns EXCEPT ![callback] = 1]
           /\ hist'[s].ret.op = "WriteCallback"
           /\ hist'[s].ret.rv = hist[s].ret.rv
           /\ sock'[s].write_callback_ = 0
           /\ sock'[s].write_buf_ = 0
           /\ ~sock'[s].write_socket_watcher_
    \* callbacks run in no other step
    /\ pc[s] \notin {"DoReadCallback", "DoWriteCallback"} =>
         /\ hist'[s].readRuns = hist[s].readRuns
         /\ hist'[s].writeRuns = hist[s].writeRuns

\* C7: the callback of a call that returned ERR_IO_PENDING runs at most
\* once, and only such callbacks run. When a notification retries the
\* operation and the result is not ERR_IO_PENDING, the socket being open,
\* the buffer is released and the watcher stopped, and then the callback
\* is run once, with that result, and leaves the socket's member.
C7_CallbackOnce ==
  []C7_Counts /\ [][C7_Invocation]_vars

\* a pending read and a pending write, both completed by a notification
C7_Witness ==
  /\ hist[TheSocket].readRuns[1] = 1
  /\ hist[TheSocket].writeRuns[1] = 1
  /\ pc[TheSocket] = "idle"

\* the latest call of socket s returned without ERR_IO_PENDING from its
\* immediate attempt
ReadReturnedSync(s) ==
  /\ hist[s].ret.op = "Read"
  /\ hist[s].nRead > 0
  /\ hist[s].readRet[hist[s].nRead] = "sync"

WriteReturnedSync(s) ==
  /\ hist[s].ret.op = "Write"
  /\ hist[s].nWrite > 0
  /\ hist[s].writeRet[hist[s].nWrite] = "sync"

\* C8: a Read or Write whose immediate attempt gives a result other than
\* ERR_IO_PENDING returns that result, with no watcher registered and no
\* buffer, length or callback stored, and its callback is never run.
C8_SyncCompletion ==
  \A s \in Sockets :
    /\ \A n \in Calls :
         /\ hist[s].readRet[n] = "sync" => hist[s].readRuns[n] = 0
         /\ hist[s].writeRet[n] = "sync" => hist[s].writeRuns[n] = 0
    /\ ReadReturnedSync(s) =>
         /\ hist[s].ret.rv # ERR_IO_PENDING
         /\ sock[s].read_callback_ = 0
         /\ sock[s].read_buf_ = 0
         /\ sock[s].read_buf_len_ = 0
         /\ ~sock[s].read_socket_watcher_
    /\ WriteReturnedSync(s) =>
         /\ hist[s].ret.rv # ERR_IO_PENDING
         /\ sock[s].write_callback_ = 0
         /\ sock[s].write_buf_ = 0
         /\ sock[s].write_buf_len_ = 0
         /\ ~sock[s].write_socket_watcher_

\* a Read that returned a byte count at once, after a Write that did
C8_Witness ==
  /\ ReadReturnedSync(TheSocket)
  /\ hist[TheSocket].ret.rv > 0
  /\ hist[TheSocket].writeRet[1] = "sync"

\* C9: on the connected path, with a buffer of L > 0 bytes, a read(2) that
\* transfers L bytes is reported as ERR_MSG_TOO_BIG and one that transfers
\* n < L bytes as n, from Read and from the retry of a pending Read alike.
C9_ConnectedTruncation ==
  \A s \in Sockets :
    LET r == hist[s].ret IN
      ( /\ r.op \in {"Read", "DidCompleteRead"}
        /\ r.path = "connected"
        /\ r.n >= 0 ) =>
          /\ r.len > 0
          /\ r.n <= r.len
          /\ r.n = r.len => r.rv = ERR_MSG_TOO_BIG
          /\ r.n < r.len => r.rv = r.n

\* a datagram that fills the buffer exactly, read by the retry of a
\* pending Read
C9_Witness ==
  LET r == hist[TheSocket].ret IN
    /\ r.op = "DidCompleteRead"
    /\ r.path = "connected"
    /\ r.n = r.len
    /\ r.len = MaxLen
    /\ r.rv = ERR_MSG_TOO_BIG

----------------------------------------------------------------------------
(* Properties of the implicit bind of Connect (SpecBind)                   *)

C10_Counts ==
  \A s \in Sockets :
    /\ hist[s].randomBinds <= kBindRetries
    /\ hist[s].zeroBinds <= 1
    /\ hist[s].randomBinds + hist[s].zeroBinds <= kBindRetries + 1
    /\ hist[s].zeroBinds = 1 => hist[s].randomBinds = kBindRetries
    \* in the loop, every attempt so far reported address-in-use
    /\ pc[s] = "RandomBind" =>
         /\ sock[s].i = hist[s].randomBinds
         /\ hist[s].zeroBinds = 0

C10_Steps ==
  \A s \in Sockets :
    /\ (pc[s] = "RandomBind" /\ hist'[s] # hist[s]) =>
         IF sock[s].i = kBindRetries
           THEN /\ hist'[s].zeroBinds = 1
                /\ hist'[s].randomBinds = kBindRetries
                /\ pc'[s] = "InternalConnect"
                /\ sock'[s].rv \in {OK, ERR_ADDRESS_IN_USE, ERR_ACCESS_DENIED}
                /\ sock'[s].rv = hist'[s].bindRv
           ELSE /\ hist'[s].zeroBinds = 0
                /\ hist'[s].randomBinds = hist[s].randomBinds + 1
                /\ pc'[s] = "RandomBind" <=> sock'[s].i = sock[s].i + 1
    \* bind(2) is called by the bind step only
    /\ pc[s] # "RandomBind" =>
         \/ hist'[s].randomBinds = hist[s].randomBinds
              /\ hist'[s].zeroBinds = hist[s].zeroBinds
         \/ hist'[s].randomBinds = 0 /\ hist'[s].zeroBinds = 0
    \* an error of the bind step is the result of Connect
    /\ (pc[s] = "InternalConnect" /\ pc'[s] # pc[s] /\ sock[s].rv < 0) =>
         /\ hist'[s].ret.op = "Connect"
         /\ hist'[s].ret.rv = sock[s].rv
         /\ ~sock'[s].is_connected_
         /\ sock'[s].remote_address_ = sock[s].remote_address_

\* C10: with RANDOM_BIND, as long as every bind to a random port reports
\* ERR_ADDRESS_IN_USE the loop goes on, up to kBindRetries binds, and is
\* followed by one bind to port 0; no bind follows that one, its result is
\* the result of the bind step, and an error of the bind step is what
\* Connect returns. A Connect calls bind(2) at most kBindRetries + 1 times.
C10_RandomBindRetries ==
  []C10_Counts /\ [][C10_Steps]_vars

\* all random ports were in use, and so was port 0: Connect returned it
C10_Witness ==
  /\ hist[TheSocket].randomBinds = kBindRetries
  /\ hist[TheSocket].zeroBinds = 1
  /\ hist[TheSocket].ret.op = "Connect"
  /\ hist[TheSocket].ret.rv = ERR_ADDRESS_IN_USE
  /\ pc[TheSocket] = "idle"


\* C11: a bind to a random port whose result is not ERR_ADDRESS_IN_USE ends
\* the loop with that result, OK or an error; no bind follows it, neither
\* to a random port nor to port 0, and an error is what Connect returns.
\* Every bind of the loop is to a port in kPortStart .. kPortEnd.
C11_Ports ==
  \A s \in Sockets :
    /\ (hist[s].randomBinds > 0 /\ hist[s].zeroBinds = 0) =>
         hist[s].port \in kPortStart .. kPortEnd
    /\ hist[s].zeroBinds > 0 => hist[s].port = 0
    \* the loop was left before the retries were used up
    /\ ( /\ pc[s] = "InternalConnect"
         /\ sock[s].bind_type_ = "RANDOM_BIND"
         /\ hist[s].zeroBinds = 0 ) =>
           /\ hist[s].randomBinds \in 1 .. kBindRetries
           /\ sock[s].rv = hist[s].bindRv
           /\ sock[s].rv \in {OK, ERR_ACCESS_DENIED}

C11_Steps ==
  \A s \in Sockets :
    /\ (pc[s] = "RandomBind" /\ hist'[s].randomBinds # hist[s].randomBinds) =>
         IF hist'[s].bindRv = ERR_ADDRESS_IN_USE
           THEN /\ pc'[s] = "RandomBind"
                /\ sock'[s].i = sock[s].i + 1
           ELSE /\ pc'[s] = "InternalConnect"
                /\ sock'[s].rv = hist'[s].bindRv
                /\ hist'[s].zeroBinds = 0
    /\ pc[s] = "InternalConnect" =>
         /\ pc'[s] \in {"InternalConnect", "idle"}
         /\ hist'[s].randomBinds = hist[s].randomBinds
         /\ hist'[s].zeroBinds = hist[s].zeroBinds
         /\ (pc'[s] = "idle" /\ sock[s].rv < 0) =>
              /\ hist'[s].ret.op = "Connect"
              /\ hist'[s].ret.rv = sock[s].rv
              /\ hist'[s].ret.calls = <<>>

C11_RandomBindStops ==
  []C11_Ports /\ [][C11_Steps]_vars

\* the third random port was refused for access: Connect returned that
C11_Witness ==
  /\ hist[TheSocket].randomBinds = 3
  /\ hist[TheSocket].zeroBinds = 0
  /\ hist[TheSocket].ret.op = "Connect"
  /\ hist[TheSocket].ret.rv = ERR_ACCESS_DENIED
  /\ pc[TheSocket] = "idle"

\* one socket whose received bytes go through its monitor: opened and
\* closed, the monitor told of the bytes of reads, the timer task running
InitMon ==
  /\ InitCommon
  /\ sock = [s \in Sockets |-> UDPSocketPosix("DEFAULT_BIND", FALSE)]

IncrementBytes == {0, 1, 100, kActivityMonitorBytesThreshold}

NextMon ==
  \/ OpenAcquire(TheSocket, "ADDRESS_FAMILY_IPV4")
  \/ OpenCreate(TheSocket)
  \/ OpenFinish(TheSocket)
  \/ CloseBegin(TheSocket)
  \/ CloseFinish(TheSocket)
  \/ \E bytes \in IncrementBytes : MonitorIncrement(TheSocket, bytes)
  \/ OnTimerFired(TheSocket)

SpecMon == InitMon /\ [][NextMon]_vars

\* one socket whose received bytes go through its monitor, tagged,
\* connected, a read and a write of one byte called, the monitor told of
\* single bytes, and closed with calls pending and bytes held
SocketTags == {"SocketTag()", "tag1"}

NextClose ==
  \/ OpenAcquire(TheSocket, "ADDRESS_FAMILY_IPV4")
  \/ OpenCreate(TheSocket)
  \/ OpenFinish(TheSocket)
  \/ CloseBegin(TheSocket)
  \/ CloseFinish(TheSocket)
  \/ \E tag \in SocketTags : ApplySocketTag(TheSocket, tag)
  \/ ConnectBegin(TheSocket, "peer1")
  \/ ConnectFinish(TheSocket)
  \/ RecvFrom(TheSocket, 1, FALSE)
  \/ SendToOrWrite(TheSocket, 1, "null")
  \/ MonitorIncrement(TheSocket, 1)
  \/ OnTimerFired(TheSocket)

SpecClose == InitMon /\ [][NextClose]_vars

\* one socket of either family, opened and closed, its code point set
NextDscp ==
  \/ \E address_family \in AddressFamilies :
       OpenAcquire(TheSocket, address_family)
  \/ OpenCreate(TheSocket)
  \/ OpenFinish(TheSocket)
  \/ CloseBegin(TheSocket)
  \/ CloseFinish(TheSocket)
  \/ \E dscp \in DiffServCodePoints : SetDiffServCodePoint(TheSocket, dscp)

SpecDscp == InitAddr /\ [][NextDscp]_vars

\* one socket reading and writing, whose completion callbacks run as steps
\* of their own and may call Read and Write again
NextReent ==
  \/ OpenAcquire(TheSocket, "ADDRESS_FAMILY_IPV4")
  \/ OpenCreate(TheSocket)
  \/ OpenFinish(TheSocket)
  \/ CloseBegin(TheSocket)
  \/ CloseFinish(TheSocket)
  \/ \E buf_len \in 1 .. MaxLen : RecvFrom(TheSocket, buf_len, FALSE)
  \/ OnFileCanReadWithoutBlocking(TheSocket)
  \/ DoReadCallbackRun(TheSocket)
  \/ ReadCallbackReturns(TheSocket)
  \/ \E buf_len \in 1 .. MaxLen : SendToOrWrite(TheSocket, buf_len, "peer1")
  \/ OnFileCanWriteWithoutBlocking(TheSocket)
  \/ DoWriteCallbackRun(TheSocket)
  \/ WriteCallbackReturns(TheSocket)

SpecReent == InitIo /\ [][NextReent]_vars

\* one tagged socket whose multicast TTL is set, connected and closed
NextTag ==
  \/ OpenAcquire(TheSocket, "ADDRESS_FAMILY_IPV4")
  \/ OpenCreate(TheSocket)
  \/ OpenFinish(TheSocket)
  \/ CloseBegin(TheSocket)
  \/ CloseFinish(TheSocket)
  \/ \E tag \in SocketTags : ApplySocketTag(TheSocket, tag)
  \/ \E time_to_live \in {0, IP_DEFAULT_MULTICAST_TTL} :
       SetMulticastTimeToLive(TheSocket, time_to_live)
  \/ \E address \in {"peer1", "invalid"} : ConnectBegin(TheSocket, address)
  \/ ConnectFinish(TheSocket)

SpecTag == InitAddr /\ [][NextTag]_vars

\* one socket reading and sending, its readiness events delivered and its
\* calls running to their end
NextLive ==
  \/ OpenAcquire(TheSocket, "ADDRESS_FAMILY_IPV4")
  \/ OpenCreate(TheSocket)
  \/ OpenFinish(TheSocket)
  \/ CloseBegin(TheSocket)
  \/ CloseFinish(TheSocket)
  \/ \E buf_len \in 1 .. MaxLen : RecvFrom(TheSocket, buf_len, FALSE)
  \/ OnFileCanReadWithoutBlocking(TheSocket)
  \/ DoReadCallback(TheSocket)
  \/ \E buf_len \in 1 .. MaxLen : SendToOrWrite(TheSocket, buf_len, "peer1")
  \/ OnFileCanWriteWithoutBlocking(TheSocket)
  \/ DoWriteCallback(TheSocket)

\* the message pump delivers the event of a registered read watcher, and
\* the retry does not answer EAGAIN for ever: lines 623-628 and 653-664
\* reaching DoReadCallback
ReadResolves(s) ==
  /\ sock[s].read_socket_watcher_
  /\ OnFileCanReadWithoutBlocking(s)
  /\ pc'[s] = "DoReadCallback"

\* the same for a registered write watcher: lines 630-633 and 692-703
WriteResolves(s) ==
  /\ sock[s].write_socket_watcher_
  /\ OnFileCanWriteWithoutBlocking(s)
  /\ pc'[s] = "DoWriteCallback"

\* a call that has begun runs to its end (Open, Close and the completion
\* handlers are straight-line code on one sequence), and a retry that is
\* attempted again and again yields a result
FairLive ==
  /\ WF_vars(OpenCreate(TheSocket))
  /\ WF_vars(OpenFinish(TheSocket))
  /\ WF_vars(CloseFinish(TheSocket))
  /\ WF_vars(DoReadCallback(TheSocket))
  /\ WF_vars(DoWriteCallback(TheSocket))
  /\ SF_vars(ReadResolves(TheSocket))
  /\ SF_vars(WriteResolves(TheSocket))

SpecLive == InitIo /\ [][NextLive]_vars /\ FairLive

----------------------------------------------------------------------------
(* Properties of the multicast TTL (SpecTtl)                               *)

\* SetMulticastTimeToLive returns on socket s in this step
TtlReturns(s) ==
  /\ hist'[s] # hist[s]
  /\ hist'[s].ret.op = "SetMulticastTimeToLive"

TtlUnchanged(s) ==
  sock'[s].multicast_time_to_live_ = sock[s].multicast_time_to_live_

\* C12 as stated: SetMulticastTimeToLive with a value outside 0 .. 255
\* returns ERR_INVALID_ARGUMENT and leaves multicast_time_to_live_ as it was.
C12_OutOfRangeTtl_Original ==
  [][ \A s \in Sockets :
        (TtlReturns(s) /\ hist'[s].ret.n \notin 0 .. 255) =>
          /\ hist'[s].ret.rv = ERR_INVALID_ARGUMENT
          /\ TtlUnchanged(s) ]_vars

\* C12, amended: SetMulticastTimeToLive with a value outside 0 .. 255
\* leaves multicast_time_to_live_ as it was; it returns
\* ERR_INVALID_ARGUMENT on a socket that no Bind or Connect has succeeded on
\* since its latest Open and Close, and ERR_SOCKET_IS_CONNECTED otherwise.
C12_OutOfRangeTtl ==
  [][ \A s \in Sockets :
        (TtlReturns(s) /\ hist'[s].ret.n \notin 0 .. 255) =>
          /\ hist'[s].ret.rv = IF hist[s].bound THEN ERR_SOCKET_IS_CONNECTED
                               ELSE ERR_INVALID_ARGUMENT
          /\ TtlUnchanged(s) ]_vars

\* -1 was refused and the TTL stored before is still there
C12_Witness ==
  /\ hist[TheSocket].ret.op = "SetMulticastTimeToLive"
  /\ hist[TheSocket].ret.n = -1
  /\ hist[TheSocket].ret.rv = ERR_INVALID_ARGUMENT
  /\ sock[TheSocket].multicast_time_to_live_ = 255

\* C13: SetMulticastTimeToLive with a value in 0 .. 255 returns OK and
\* stores the value on a socket that no Bind or Connect has succeeded on
\* since its latest Open and Close, a closed socket included; after a Bind
\* or Connect that succeeded it returns ERR_SOCKET_IS_CONNECTED and leaves
\* multicast_time_to_live_ as it was, until the Close.
C13_InRangeTtl ==
  [][ \A s \in Sockets :
        (TtlReturns(s) /\ hist'[s].ret.n \in 0 .. 255) =>
          IF hist[s].bound
            THEN /\ hist'[s].ret.rv = ERR_SOCKET_IS_CONNECTED
                 /\ TtlUnchanged(s)
            ELSE /\ hist'[s].ret.rv = OK
                 /\ sock'[s].multicast_time_to_live_ = hist'[s].ret.n ]_vars

\* the setter succeeds on a socket that was connected and then closed
C13_Witness ==
  /\ hist[TheSocket].ret.op = "SetMulticastTimeToLive"
  /\ hist[TheSocket].ret.rv = OK
  /\ sock[TheSocket].multicast_time_to_live_ = 0
  /\ sock[TheSocket].remote_address_ = "peer1"
  /\ sock[TheSocket].socket_ = kInvalidSocket

\* the setter is refused on a bound socket
C13_WitnessBound ==
  /\ hist[TheSocket].ret.op = "SetMulticastTimeToLive"
  /\ hist[TheSocket].ret.rv = ERR_SOCKET_IS_CONNECTED
  /\ hist[TheSocket].ret.n = 0
  /\ hist[TheSocket].bound
  /\ sock[TheSocket].multicast_time_to_live_ = 255

----------------------------------------------------------------------------
(* Properties of the address getters (SpecAddr)                            *)

AddressGetters == {"GetPeerAddress", "GetLocalAddress"}

\* C14: in every state in which no Bind or Connect has succeeded since the
\* socket was last opened, the states after a Close included, a
\* GetPeerAddress or GetLocalAddress returns ERR_SOCKET_NOT_CONNECTED and
\* writes nothing to *address.
C14_GettersNeedConnection ==
  \A s \in Sockets :
    (hist[s].ret.op \in AddressGetters /\ ~hist[s].bound) =>
      /\ hist[s].ret.rv = ERR_SOCKET_NOT_CONNECTED
      /\ hist[s].ret.path = "unwritten"

\* a getter was refused on a socket that was connected and then closed
C14_Witness ==
  /\ hist[TheSocket].ret.op = "GetPeerAddress"
  /\ hist[TheSocket].ret.rv = ERR_SOCKET_NOT_CONNECTED
  /\ sock[TheSocket].remote_address_ = "peer1"
  /\ sock[TheSocket].socket_ = kInvalidSocket

\* C15: after a Connect(e) that succeeded, and until the next Bind, Connect
\* or Close, every GetPeerAddress returns OK and e, and every GetLocalAddress
\* that returns OK writes the endpoint the first such call wrote, whatever
\* reads, writes and option calls happen in between.
C15_CachedAddresses ==
  \A s \in Sockets :
    /\ (hist[s].ret.op = "GetPeerAddress" /\ hist[s].peer # "null") =>
         /\ hist[s].ret.rv = OK
         /\ hist[s].ret.path = hist[s].peer
    /\ (hist[s].ret.op = "GetLocalAddress" /\ hist[s].ret.rv = OK) =>
         /\ hist[s].bound
         /\ hist[s].ret.path = hist[s].local

\* after Connect("peer2") and a read that completed through its callback,
\* GetLocalAddress returns the endpoint that local_address_ holds
C15_Witness ==
  /\ hist[TheSocket].peer = "peer2"
  /\ hist[TheSocket].ret.op = "GetLocalAddress"
  /\ hist[TheSocket].ret.rv = OK
  /\ hist[TheSocket].ret.path = "local2"
  /\ sock[TheSocket].local_address_ = "local2"
  /\ hist[TheSocket].readRuns[1] = 1

----------------------------------------------------------------------------
(* Properties of the activity monitor (SpecMon)                            *)

\* Increment(100) returns on the monitor of socket s in this step
Increment100(s) ==
  /\ hist'[s] # hist[s]
  /\ hist'[s].ret.op = "Increment"
  /\ hist'[s].ret.n = 100

\* the timer task of socket s runs in this step
TimerRuns(s) ==
  /\ hist'[s] # hist[s]
  /\ hist'[s].ret.op = "OnTimerFired"

\* what the timer task does: the bytes held back are reported, and a task
\* that finds none stops the timer
C16_TimerReports(s) ==
  TimerRuns(s) =>
    /\ bytes_received' = bytes_received + sock[s].bytes_
    /\ sock'[s].bytes_ = 0
    /\ sock'[s].timer_ = (sock[s].bytes_ # 0)

\* bytes held back wait for a running timer
C16_HeldBytesHaveTimer ==
  \A s \in Sockets : sock[s].bytes_ # 0 => sock[s].timer_

\* C16 as stated: once two reports to the process-wide counter have been
\* made, an Increment of 100 bytes is not reported at once; the timer task
\* reports it, and a timer task that finds no bytes stops the timer.
C16_CoalescedIncrement_Original ==
  /\ []C16_HeldBytesHaveTimer
  /\ [][ \A s \in Sockets :
           /\ (Increment100(s) /\ hist[s].flushes = 2) =>
                /\ bytes_received' = bytes_received
                /\ sock'[s].bytes_ = sock[s].bytes_ + 100
           /\ C16_TimerReports(s) ]_vars

\* C16, amended: once an Increment with bytes # 0 has been made since the
\* timer task last ran (or since construction), an Increment of 100 bytes
\* that brings the bytes held back to at most 65535 is not reported at
\* once: the bytes are held back with the timer running, the timer task
\* (or a Close before it) reports them, and a timer task that finds no
\* bytes stops the timer.
C16_CoalescedIncrement ==
  /\ []C16_HeldBytesHaveTimer
  /\ [][ \A s \in Sockets :
           /\ (/\ Increment100(s)
               /\ hist[s].samples >= 1
               /\ sock[s].bytes_ + 100 <= kActivityMonitorBytesThreshold) =>
                /\ bytes_received' = bytes_received
                /\ sock'[s].bytes_ = sock[s].bytes_ + 100
                /\ sock'[s].timer_
           /\ C16_TimerReports(s) ]_vars

\* two reports were made, 100 bytes were held back, and the timer task has
\* reported them: the process-wide counter stands at 102
C16_Witness ==
  /\ hist[TheSocket].ret.op = "OnTimerFired"
  /\ hist[TheSocket].ret.n = 100
  /\ hist[TheSocket].flushes = 2
  /\ bytes_received = 102
  /\ sock[TheSocket].timer_

\* the next timer task found no bytes and stopped the timer
C16_WitnessStopped ==
  /\ hist[TheSocket].ret.op = "OnTimerFired"
  /\ hist[TheSocket].ret.n = 0
  /\ hist[TheSocket].flushes = 2
  /\ bytes_received = 102
  /\ ~sock[TheSocket].timer_

----------------------------------------------------------------------------
(* Order of the completion callbacks (SpecIo)                              *)

\* the callback of the n-th Read (Write) call of socket s runs in this step
ReadCallbackRuns(s, n) == hist'[s].readRuns[n] > hist[s].readRuns[n]
WriteCallbackRuns(s, n) == hist'[s].writeRuns[n] > hist[s].writeRuns[n]

\* C17: in each direction of a socket the callbacks run in the order of
\* their calls: when the callback of a call runs, no earlier call of the
\* direction is still pending and no callback of a later call has run.
C17_CallbackOrder ==
  [][ \A s \in Sockets : \A n \in Calls :
        /\ ReadCallbackRuns(s, n) =>
             \A m \in Calls :
               /\ m < n => m \notin PendingReads(s)
               /\ m > n => hist[s].readRuns[m] = 0
        /\ WriteCallbackRuns(s, n) =>
             \A m \in Calls :
               /\ m < n => m \notin PendingWrites(s)
               /\ m > n => hist[s].writeRuns[m] = 0 ]_vars

\* two reads were pending one after the other and both callbacks have run
C17_Witness ==
  /\ hist[TheSocket].readRet[1] = "pending"
  /\ hist[TheSocket].readRet[2] = "pending"
  /\ hist[TheSocket].readRuns[1] = 1
  /\ hist[TheSocket].readRuns[2] = 1

----------------------------------------------------------------------------
(* Close and the do-not-close flag (SpecBind)                              *)

\* C18: while dont_close_ is set, a Close (the destructor's included) fails
\* its CHECK, on an open socket, on a closed one and inside an Open that
\* fails: no Close gets past the CHECK or returns, the descriptor of the
\* socket stays open, and the step that aborts changes no field, no
\* descriptor and no counter.
C18_DontCloseIsFatal ==
  [][ \A s \in Sockets :
        sock[s].dont_close_ =>
          /\ pc'[s] # "Close_released"
          /\ hist'[s] # hist[s] => hist'[s].ret.op # "Close"
          /\ sock[s].socket_ \in os_fds => sock[s].socket_ \in os_fds'
          /\ (aborted' /\ ~aborted) =>
               /\ sock' = sock
               /\ os_fds' = os_fds
               /\ global_socket_count' = global_socket_count
               /\ bytes_received' = bytes_received ]_vars

\* a Close of a closed socket with the flag set has aborted: a Close had
\* returned, the flag was set, and the next Close failed the CHECK
C18_Witness ==
  /\ aborted
  /\ pc[TheSocket] = "idle"
  /\ sock[TheSocket].dont_close_
  /\ sock[TheSocket].socket_ = kInvalidSocket
  /\ hist[TheSocket].ret.op = "Close"

\* an abort on an open, connected socket with the flag set, which keeps its
\* descriptor, its token and its connection
C18_WitnessOpen ==
  /\ aborted
  /\ pc[TheSocket] = "idle"
  /\ sock[TheSocket].dont_close_
  /\ sock[TheSocket].socket_ \in os_fds
  /\ sock[TheSocket].owned_socket_count_
  /\ sock[TheSocket].is_connected_

----------------------------------------------------------------------------
(* Close of a closed socket (SpecMon)                                      *)

\* a Close of socket s, called with the socket closed, returns in this step
CloseOfClosedReturns(s) ==
  /\ pc[s] = "idle"
  /\ sock[s].socket_ = kInvalidSocket
  /\ hist'[s] # hist[s]
  /\ hist'[s].ret.op = "Close"

\* a field of a socket names a descriptor only while the descriptor is open
C19_NoStaleDescriptor ==
  \A s \in Sockets :
    sock[s].socket_ # kInvalidSocket => sock[s].socket_ \in os_fds

\* C19: a Close of a closed socket changes no field of the socket (the
\* monitor's included), no descriptor, and neither the gate nor the
\* process-wide byte counter, so a second Close leaves the state of the
\* first; a descriptor leaves the table only as the open descriptor of a
\* socket whose socket_ is reset in the same step, so each Open that
\* succeeded is followed by one close(2) at most.
C19_CloseIdempotent ==
  /\ []C19_NoStaleDescriptor
  /\ [][ /\ \A s \in Sockets :
              CloseOfClosedReturns(s) =>
                /\ sock' = sock
                /\ os_fds' = os_fds
                /\ global_socket_count' = global_socket_count
                /\ bytes_received' = bytes_received
                /\ pc' = pc
                /\ ~aborted'
         /\ \A fd \in os_fds \ os_fds' :
              \E s \in Sockets :
                /\ sock[s].socket_ = fd
                /\ sock'[s].socket_ = kInvalidSocket ]_vars

\* a second Close has returned on a socket whose monitor had reported bytes
\* and still counts two samples
C19_Witness ==
  /\ hist[TheSocket].ret.op = "Close"
  /\ hist[TheSocket].ret.path = "closed"
  /\ hist[TheSocket].flushes >= 1
  /\ sock[TheSocket].increments_ = 2
  /\ sock[TheSocket].socket_ = kInvalidSocket
  /\ os_fds = {}

----------------------------------------------------------------------------
(* The state of a pending operation (SpecIo)                               *)

\* the n-th Read (Write) call of socket s is left pending in this step
ReadLeftPending(s, n) ==
  hist[s].readRet[n] # "pending" /\ hist'[s].readRet[n] = "pending"
WriteLeftPending(s, n) ==
  hist[s].writeRet[n] # "pending" /\ hist'[s].writeRet[n] = "pending"

\* a call left pending returns ERR_IO_PENDING with the watcher registered
\* and its buffer, length, endpoint argument and callback stored
C20_PendingStored ==
  \A s \in Sockets : \A n \in Calls :
    /\ ReadLeftPending(s, n) =>
         /\ hist'[s].ret.op = "Read"
         /\ hist'[s].ret.rv = ERR_IO_PENDING
         /\ sock'[s].read_socket_watcher_
         /\ sock'[s].read_buf_ = n
         /\ sock'[s].read_buf_len_ = hist'[s].ret.len
         /\ EndpointAsked(sock'[s].recv_from_address_) = hist'[s].ret.address
         /\ sock'[s].read_callback_ = n
    /\ WriteLeftPending(s, n) =>
         /\ hist'[s].ret.op = "Write"
         /\ hist'[s].ret.rv = ERR_IO_PENDING
         /\ sock'[s].write_socket_watcher_
         /\ sock'[s].write_buf_ = n
         /\ sock'[s].write_buf_len_ = hist'[s].ret.len
         /\ sock'[s].send_to_address_ = hist'[s].ret.address
         /\ sock'[s].write_callback_ = n

\* between operations a direction has a callback exactly when it has a
\* buffer and a registered watcher, and then the socket is open
C20_PendingConsistent ==
  \A s \in Sockets :
    (pc[s] = "idle" /\ ~aborted) =>
      /\ (sock[s].read_callback_ # 0) = (sock[s].read_buf_ # 0)
      /\ (sock[s].read_callback_ # 0) = sock[s].read_socket_watcher_
      /\ (sock[s].write_callback_ # 0) = (sock[s].write_buf_ # 0)
      /\ (sock[s].write_callback_ # 0) = sock[s].write_socket_watcher_
      /\ (sock[s].read_callback_ # 0 \/ sock[s].write_callback_ # 0) =>
           /\ sock[s].socket_ # kInvalidSocket
           /\ sock[s].socket_ \in os_fds

\* C20: a Read or Write whose attempt would block and whose watcher is
\* registered returns ERR_IO_PENDING and stores buffer, length, endpoint
\* argument and callback; between operations a direction has a stored
\* callback if and only if it has a stored buffer and a registered
\* watcher, and a socket with a stored callback is open.
C20_PendingState ==
  []C20_PendingConsistent /\ [][C20_PendingStored]_vars

\* a SendTo of two bytes to "peer1" is pending, between operations
C20_Witness ==
  /\ pc[TheSocket] = "idle"
  /\ ~aborted
  /\ hist[TheSocket].ret.op = "Write"
  /\ hist[TheSocket].ret.rv = ERR_IO_PENDING
  /\ hist[TheSocket].ret.address = "peer1"
  /\ sock[TheSocket].write_socket_watcher_
  /\ sock[TheSocket].write_callback_ = 1
  /\ sock[TheSocket].write_buf_len_ = 2
  /\ sock[TheSocket].send_to_address_ = "peer1"

----------------------------------------------------------------------------
(* A readiness event whose retry would block (SpecIo)                      *)

\* the retry of the pending read (write) of socket s returns in this step
RetryReturns(s, op) ==
  /\ hist'[s] # hist[s]
  /\ hist'[s].ret.op = op

\* C21: when the watcher of a direction fires for a pending call and the
\* retried system call would block again, buffer, length, endpoint and
\* callback of the direction and the watcher stay as they are (no field of
\* the socket changes at all), no callback runs and no byte is counted.
C21_RetryWouldBlock ==
  [][ \A s \in Sockets :
        (/\ \/ RetryReturns(s, "DidCompleteRead")
            \/ RetryReturns(s, "DidCompleteWrite")
         /\ hist'[s].ret.rv = ERR_IO_PENDING) =>
          /\ sock' = sock
          /\ pc' = pc
          /\ hist'[s].readRuns = hist[s].readRuns
          /\ hist'[s].writeRuns = hist[s].writeRuns
          /\ bytes_received' = bytes_received
          /\ os_fds' = os_fds ]_vars

\* the retry of the first read, a RecvFrom, would block: it is still pending
C21_Witness ==
  /\ hist[TheSocket].ret.op = "DidCompleteRead"
  /\ hist[TheSocket].ret.rv = ERR_IO_PENDING
  /\ pc[TheSocket] = "idle"
  /\ sock[TheSocket].read_socket_watcher_
  /\ sock[TheSocket].read_callback_ = 1
  /\ sock[TheSocket].read_buf_ = 1
  /\ sock[TheSocket].recv_from_address_
  /\ hist[TheSocket].readRuns[1] = 0

\* the same for a write to "peer1"
C21_WitnessWrite ==
  /\ hist[TheSocket].ret.op = "DidCompleteWrite"
  /\ hist[TheSocket].ret.rv = ERR_IO_PENDING
  /\ sock[TheSocket].write_socket_watcher_
  /\ sock[TheSocket].write_callback_ = 1
  /\ sock[TheSocket].send_to_address_ = "peer1"
  /\ hist[TheSocket].writeRuns[1] = 0

----------------------------------------------------------------------------
(* Independence of the two directions (SpecIo)                             *)

ReadState(r) ==
  <<r.read_buf_, r.read_buf_len_, r.recv_from_address_, r.read_callback_,
    r.read_socket_watcher_>>

WriteState(r) ==
  <<r.write_buf_, r.write_buf_len_, r.send_to_address_, r.write_callback_,
    r.write_socket_watcher_>>

ReadOps == {"Read", "DidCompleteRead", "ReadCallback"}
WriteOps == {"Write", "DidCompleteWrite", "WriteCallback"}

\* C22: a step of the read direction (a Read or RecvFrom call, a retry by
\* the read watcher, the run of the read callback) leaves the pending state
\* and the watcher of the write direction as they are, and a step of the
\* write direction leaves those of the read direction; the state of a
\* direction changes only in steps of that direction and in Close.
C22_DirectionsIndependent ==
  [][ \A s \in Sockets :
        /\ (hist'[s] # hist[s] /\ hist'[s].ret.op \in ReadOps) =>
             WriteState(sock'[s]) = WriteState(sock[s])
        /\ (hist'[s] # hist[s] /\ hist'[s].ret.op \in WriteOps) =>
             ReadState(sock'[s]) = ReadState(sock[s])
        /\ ReadState(sock'[s]) # ReadState(sock[s]) =>
             hist'[s].ret.op \in ReadOps \cup {"Close"}
        /\ WriteState(sock'[s]) # WriteState(sock[s]) =>
             hist'[s].ret.op \in WriteOps \cup {"Close"} ]_vars

\* a write was issued, left pending and completed, its callback run, while
\* the first read is pending
C22_Witness ==
  /\ hist[TheSocket].ret.op = "WriteCallback"
  /\ hist[TheSocket].writeRet[1] = "pending"
  /\ hist[TheSocket].writeRuns[1] = 1
  /\ hist[TheSocket].readRet[1] = "pending"
  /\ hist[TheSocket].readRuns[1] = 0
  /\ sock[TheSocket].read_callback_ = 1
  /\ sock[TheSocket].read_socket_watcher_

\* a read completes at once while a write is pending
C22_WitnessRead ==
  /\ hist[TheSocket].ret.op = "Read"
  /\ hist[TheSocket].ret.rv >= 0
  /\ hist[TheSocket].writeRet[1] = "pending"
  /\ hist[TheSocket].writeRuns[1] = 0
  /\ sock[TheSocket].write_callback_ = 1

----------------------------------------------------------------------------
(* What Connect and Bind leave behind (SpecBind)                           *)

\* the call `op` of socket s returns in this step
CallReturns(s, op) ==
  /\ hist'[s].ret.op = op
  /\ pc'[s] = "idle"
  /\ \/ pc[s] # "idle"
     \/ hist'[s] # hist[s]

\* C23: when Connect returns, is_connected_ is set exactly if it returns
\* OK, and then remote_address_ is the endpoint given; after an error of
\* the random bind, of the conversion of the address or of connect(2), and
\* after a refused multicast option as well, the socket is not connected
\* and remote_address_ is null.
C23_ConnectOutcome ==
  [][ \A s \in Sockets :
        CallReturns(s, "Connect") =>
          /\ sock'[s].is_connected_ = (hist'[s].ret.rv = OK)
          /\ hist'[s].ret.rv = OK =>
               /\ pc[s] = "InternalConnect"
               /\ sock'[s].remote_address_ = sock[s].address
          /\ hist'[s].ret.rv # OK =>
               sock'[s].remote_address_ = "null" ]_vars

\* Connect("peer2") has succeeded after random binds
C23_Witness ==
  /\ hist[TheSocket].ret.op = "Connect"
  /\ hist[TheSocket].ret.rv = OK
  /\ hist[TheSocket].randomBinds >= 1
  /\ pc[TheSocket] = "idle"
  /\ sock[TheSocket].is_connected_
  /\ sock[TheSocket].remote_address_ = "peer2"

\* connect(2) was refused
C23_WitnessRefused ==
  /\ hist[TheSocket].ret.op = "Connect"
  /\ hist[TheSocket].ret.rv = ERR_CONNECTION_REFUSED
  /\ pc[TheSocket] = "idle"
  /\ ~sock[TheSocket].is_connected_
  /\ sock[TheSocket].remote_address_ = "null"

\* the address did not convert
C23_WitnessInvalid ==
  /\ hist[TheSocket].ret.op = "Connect"
  /\ hist[TheSocket].ret.rv = ERR_ADDRESS_INVALID
  /\ pc[TheSocket] = "idle"
  /\ ~sock[TheSocket].is_connected_

\* the random bind failed
C23_WitnessBind ==
  /\ hist[TheSocket].ret.op = "Connect"
  /\ hist[TheSocket].ret.rv = ERR_ACCESS_DENIED
  /\ hist[TheSocket].randomBinds >= 1
  /\ pc[TheSocket] = "idle"
  /\ ~sock[TheSocket].is_connected_

----------------------------------------------------------------------------
(* Bind and the multicast options (SpecOpt)                                *)

\* C24: when Bind returns, is_connected_ is set exactly if it returns OK,
\* and then local_address_ is null and remote_address_ as before; when a
\* multicast option or bind(2) fails, Bind returns the error and changes no
\* field: is_connected_ stays false and both cached endpoints stay.
C24_BindOutcome ==
  [][ \A s \in Sockets :
        CallReturns(s, "Bind") =>
          /\ sock'[s].is_connected_ = (hist'[s].ret.rv = OK)
          /\ hist'[s].ret.rv = OK =>
               /\ sock'[s].local_address_ = "null"
               /\ sock'[s].remote_address_ = sock[s].remote_address_
          /\ hist'[s].ret.rv # OK =>
               /\ hist'[s].ret.rv < 0
               /\ hist'[s].ret.failed # "none"
               /\ sock' = sock ]_vars

\* Bind has failed on a refused multicast TTL and has left the cached local
\* endpoint in place
C24_Witness ==
  /\ hist[TheSocket].ret.op = "Bind"
  /\ hist[TheSocket].ret.rv = ERR_ACCESS_DENIED
  /\ hist[TheSocket].ret.failed = "IP_MULTICAST_TTL"
  /\ ~sock[TheSocket].is_connected_
  /\ sock[TheSocket].local_address_ = "local2"

\* bind(2) has failed
C24_WitnessBind ==
  /\ hist[TheSocket].ret.op = "Bind"
  /\ hist[TheSocket].ret.rv = ERR_ADDRESS_IN_USE
  /\ hist[TheSocket].ret.failed = "bind"
  /\ ~sock[TheSocket].is_connected_

\* Bind has succeeded on a socket that was connected to "peer1" before
C24_WitnessOk ==
  /\ hist[TheSocket].ret.op = "Bind"
  /\ hist[TheSocket].ret.rv = OK
  /\ sock[TheSocket].is_connected_
  /\ sock[TheSocket].local_address_ = "null"
  /\ sock[TheSocket].remote_address_ = "peer1"

\* the setsockopt(2) calls SetMulticastOptions owes a socket with the
\* fields r, in their order
MulticastStepsDue(r) ==
  (IF "SOCKET_OPTION_MULTICAST_LOOP" \in r.socket_options_ THEN <<>>
   ELSE <<"IP_MULTICAST_LOOP">>)
  \o (IF r.multicast_time_to_live_ = IP_DEFAULT_MULTICAST_TTL THEN <<>>
      ELSE <<"IP_MULTICAST_TTL">>)
  \o (IF r.multicast_interface_ = 0 THEN <<>> ELSE <<"IP_MULTICAST_IF">>)

IsPrefix(p, q) == Len(p) <= Len(q) /\ SubSeq(q, 1, Len(p)) = p

MulticastSteps == {"IP_MULTICAST_LOOP", "IP_MULTICAST_TTL", "IP_MULTICAST_IF"}

\* what a returning Bind or Connect (system call `final`) has called
C25_Calls(r, ret, final) ==
  LET due == MulticastStepsDue(r) IN
  IF ret.failed \in MulticastSteps
    THEN \* the step that failed is the last call made; the steps before
         \* it are the ones due before it, and the error is returned
         /\ IsPrefix(ret.calls, due)
         /\ ret.calls # <<>>
         /\ ret.calls[Len(ret.calls)] = ret.failed
         /\ ret.rv < 0
    ELSE \* all steps due were made, in their order, before the final call
         /\ IsPrefix(due, ret.calls)
         /\ ret.calls \in {due, due \o <<final>>}
         /\ ret.rv = OK => ret.calls = due \o <<final>>

\* C25: Bind and Connect apply the multicast options before bind(2) or
\* connect(2) and in the order loopback, TTL, interface, each step only
\* when it is due (loopback not requested; TTL not the default; interface
\* not 0); a step that fails is the last system call of the Bind or
\* Connect, which returns its error; a Connect whose options fail does not
\* enter the random bind either.
C25_MulticastOptionsFirst ==
  [][ \A s \in Sockets :
        /\ CallReturns(s, "Bind") =>
             C25_Calls(sock[s], hist'[s].ret, "bind")
        /\ CallReturns(s, "Connect") =>
             /\ C25_Calls(sock[s], hist'[s].ret, "connect")
             /\ hist'[s].ret.failed \in MulticastSteps =>
                  /\ pc[s] = "idle"
                  /\ hist'[s].randomBinds = 0
                  /\ hist'[s].zeroBinds = 0 ]_vars

\* a Bind with all three steps due has failed in the second: the interface
\* was not set and bind(2) not called
C25_Witness ==
  /\ hist[TheSocket].ret.op = "Bind"
  /\ hist[TheSocket].ret.calls = <<"IP_MULTICAST_LOOP", "IP_MULTICAST_TTL">>
  /\ hist[TheSocket].ret.failed = "IP_MULTICAST_TTL"
  /\ hist[TheSocket].ret.rv = ERR_ACCESS_DENIED
  /\ sock[TheSocket].multicast_interface_ = 1
  /\ ~sock[TheSocket].is_connected_

\* a Connect has made all three steps and then connect(2)
C25_WitnessAll ==
  /\ hist[TheSocket].ret.op = "Connect"
  /\ hist[TheSocket].ret.rv = OK
  /\ hist[TheSocket].ret.calls =
       <<"IP_MULTICAST_LOOP", "IP_MULTICAST_TTL", "IP_MULTICAST_IF",
         "connect">>

\* a Bind with no step due has called bind(2) only
C25_WitnessNone ==
  /\ hist[TheSocket].ret.op = "Bind"
  /\ hist[TheSocket].ret.rv = OK
  /\ hist[TheSocket].ret.calls = <<"bind">>

----------------------------------------------------------------------------
(* The cached endpoints over Close and a new Open (SpecAddr)               *)

\* C26: Close invalidates the cached endpoints: a closed socket has
\* neither local_address_ nor remote_address_, so a Connect that returns OK
\* finds no local endpoint cached and a Bind that returns OK leaves no
\* remote endpoint cached for GetPeerAddress, GetLocalAddress and
\* InternalRecvFrom to use.
C26_CloseInvalidatesEndpoints ==
  \A s \in Sockets :
    /\ (pc[s] = "idle" /\ sock[s].socket_ = kInvalidSocket) =>
         /\ sock[s].remote_address_ = "null"
         /\ sock[s].local_address_ = "null"
    /\ (pc[s] = "idle" /\ hist[s].ret.op = "Connect"
        /\ hist[s].ret.rv = OK) =>
         sock[s].local_address_ = "null"
    /\ (pc[s] = "idle" /\ hist[s].ret.op = "Bind" /\ hist[s].ret.rv = OK) =>
         sock[s].remote_address_ = "null"

\* GetLocalAddress returns, without asking the system, the local endpoint
\* that was cached before the Close: the socket was bound, closed, opened
\* and connected to "peer1", and getsockname(2) has not been called since
C26_Witness ==
  /\ pc[TheSocket] = "idle"
  /\ hist[TheSocket].ret.op = "Connect"
  /\ hist[TheSocket].ret.rv = OK
  /\ sock[TheSocket].is_connected_
  /\ sock[TheSocket].remote_address_ = "peer1"
  /\ sock[TheSocket].local_address_ = "local2"

\* the same for the remote endpoint: the socket is bound, and
\* remote_address_ still holds the peer of the connection closed before
C26_WitnessRemote ==
  /\ pc[TheSocket] = "idle"
  /\ hist[TheSocket].ret.op = "Bind"
  /\ hist[TheSocket].ret.rv = OK
  /\ hist[TheSocket].peer = "null"
  /\ sock[TheSocket].is_connected_
  /\ sock[TheSocket].remote_address_ = "peer2"

----------------------------------------------------------------------------
(* What Close leaves behind (SpecClose)                                    *)

\* Close returns on the open socket s in this step
CloseOfOpenReturns(s) ==
  /\ pc[s] = "Close_released"
  /\ pc'[s] = "idle"

\* C27: when Close returns on an open socket, the socket has no descriptor
\* (and the descriptor it had is closed), is_connected_ is false,
\* addr_family_ and tag_ have their default values, no read or write state
\* is pending, both watchers are stopped, no token is held, and the monitor
\* holds no bytes and its timer is stopped.
C27_CloseResets ==
  [][\A s \in Sockets :
       CloseOfOpenReturns(s) =>
         /\ sock'[s].socket_ = kInvalidSocket
         /\ sock[s].socket_ \notin os_fds'
         /\ ~sock'[s].is_connected_
         /\ sock'[s].addr_family_ = "AF_UNSPEC"
         /\ sock'[s].tag_ = "SocketTag()"
         /\ sock'[s].read_buf_ = 0
         /\ sock'[s].read_buf_len_ = 0
         /\ sock'[s].read_callback_ = 0
         /\ ~sock'[s].recv_from_address_
         /\ sock'[s].write_buf_ = 0
         /\ sock'[s].write_buf_len_ = 0
         /\ sock'[s].write_callback_ = 0
         /\ sock'[s].send_to_address_ = "null"
         /\ ~sock'[s].read_socket_watcher_
         /\ ~sock'[s].write_socket_watcher_
         /\ ~sock'[s].owned_socket_count_
         /\ sock'[s].bytes_ = 0
         /\ ~sock'[s].timer_
         /\ hist'[s].ret.op = "Close"
         /\ hist'[s].ret.n = sock[s].bytes_
         /\ bytes_received' = bytes_received + sock[s].bytes_ ]_vars

\* Close has returned on a socket that was open with a read and a write
\* pending and a byte held by the monitor: both calls were dropped and the
\* byte was reported
C27_Witness ==
  /\ pc[TheSocket] = "idle"
  /\ hist[TheSocket].ret.op = "Close"
  /\ hist[TheSocket].ret.n = 1
  /\ \E n \in 1 .. MaxOps : hist[TheSocket].readRet[n] = "dropped"
  /\ \E n \in 1 .. MaxOps : hist[TheSocket].writeRet[n] = "dropped"
  /\ sock[TheSocket].socket_ = kInvalidSocket

\* Close is about to finish on a tagged, connected socket whose monitor
\* holds a byte with the timer running, a read and a write pending
C27_WitnessBefore ==
  /\ pc[TheSocket] = "Close_released"
  /\ sock[TheSocket].tag_ = "tag1"
  /\ sock[TheSocket].is_connected_
  /\ sock[TheSocket].bytes_ = 1
  /\ sock[TheSocket].timer_
  /\ sock[TheSocket].read_socket_watcher_
  /\ sock[TheSocket].write_socket_watcher_
  /\ sock[TheSocket].read_callback_ # 0
  /\ sock[TheSocket].write_callback_ # 0

----------------------------------------------------------------------------
(* The order of the steps of Close (Spec)                                  *)

\* C28: Close returns the token to the gate only after the descriptor has
\* been closed: while the descriptor of a socket is open, the socket holds
\* a unit of the gate, in its member token or in the local token of the
\* Open that is creating it.
C28_TokenReleasedAfterClose ==
  \A s \in Sockets :
    (sock[s].socket_ # kInvalidSocket /\ sock[s].socket_ \in os_fds) =>
      \/ sock[s].owned_socket_count_
      \/ pc[s] = "Open_created"

\* Close of socket 1 has returned its token and not yet closed the
\* descriptor, and socket 2 was opened with that token: more descriptors
\* are open than the gate admits
C28_Witness ==
  /\ pc[1] = "Close_released"
  /\ sock[1].socket_ \in os_fds
  /\ ~sock[1].owned_socket_count_
  /\ pc[2] = "idle"
  /\ sock[2].owned_socket_count_
  /\ sock[2].socket_ \in os_fds
  /\ Cardinality(os_fds) > GateCapacity

----------------------------------------------------------------------------
(* The timer of the activity monitor (SpecMon)                             *)

\* C29 as stated: between operations the timer of the monitor is running
\* if and only if the monitor holds unreported bytes.
C29_TimerIffBytes_Original ==
  \A s \in Sockets :
    pc[s] = "idle" => (sock[s].timer_ <=> sock[s].bytes_ # 0)

\* C29, amended: whenever the monitor holds unreported bytes its timer is
\* running, and the timer runs only on an open socket; the timer also runs
\* with no bytes held, after a report, and it stops only when the timer
\* task finds no bytes or when Close returns.
C29_TimerCoversBytes ==
  /\ [](\A s \in Sockets :
          /\ sock[s].bytes_ # 0 => sock[s].timer_
          /\ sock[s].timer_ => sock[s].socket_ # kInvalidSocket)
  /\ [][\A s \in Sockets :
          /\ (sock[s].timer_ /\ ~sock'[s].timer_) =>
               /\ sock'[s].bytes_ = 0
               /\ \/ TimerRuns(s) /\ sock[s].bytes_ = 0
                  \/ CloseOfOpenReturns(s)
          /\ (TimerRuns(s) /\ sock[s].bytes_ # 0) =>
               sock'[s].timer_ /\ sock'[s].bytes_ = 0 ]_vars

\* an Increment of one byte was reported at once: no bytes are held and the
\* timer is running
C29_Witness ==
  /\ pc[TheSocket] = "idle"
  /\ hist[TheSocket].ret.op = "Increment"
  /\ hist[TheSocket].ret.n = 1
  /\ sock[TheSocket].bytes_ = 0
  /\ sock[TheSocket].timer_

\* the timer task has reported held bytes: none are held and the timer is
\* still running
C29_WitnessTask ==
  /\ pc[TheSocket] = "idle"
  /\ hist[TheSocket].ret.op = "OnTimerFired"
  /\ hist[TheSocket].ret.n > 0
  /\ sock[TheSocket].bytes_ = 0
  /\ sock[TheSocket].timer_

\* bytes are held and the timer is running
C29_WitnessHeld ==
  /\ pc[TheSocket] = "idle"
  /\ sock[TheSocket].bytes_ = 100
  /\ sock[TheSocket].timer_

----------------------------------------------------------------------------
(* When Increment reports (SpecMon)                                        *)

\* Increment returns on the monitor of socket s in this step
IncrementReturns(s) ==
  /\ hist'[s] # hist[s]
  /\ hist'[s].ret.op = "Increment"

\* what an Increment of socket s does when it reports at once, or not
IncrementReports(s, flush) ==
  LET bytes == hist'[s].ret.n IN
    /\ flush =>
         /\ bytes_received' = bytes_received + sock[s].bytes_ + bytes
         /\ sock'[s].bytes_ = 0
    /\ ~flush =>
         /\ bytes_received' = bytes_received
         /\ sock'[s].bytes_ = sock[s].bytes_ + bytes

\* C30 as stated: Increment(0) changes nothing; an Increment of bytes # 0
\* reports all the bytes at once exactly when fewer than 2 samples have
\* been made since the last report (this sample is the first one since,
\* that is, no bytes were held) or the held bytes exceed 65535, and
\* otherwise reports nothing.
C30_IncrementFlushes_Original ==
  [][\A s \in Sockets :
       IncrementReturns(s) =>
         IF hist'[s].ret.n = 0
           THEN sock'[s] = sock[s] /\ bytes_received' = bytes_received
           ELSE IncrementReports(s,
                  \/ sock[s].bytes_ = 0
                  \/ sock[s].bytes_ + hist'[s].ret.n
                       > kActivityMonitorBytesThreshold) ]_vars

\* C30, amended: Increment(0) changes nothing; an Increment of bytes # 0
\* reports all the bytes at once exactly when it is the first sample since
\* the timer task last ran (or since construction: neither a report nor a
\* Close restarts the count of samples) or the held bytes with the new ones
\* exceed 65535, and otherwise reports nothing and holds the bytes; either
\* way the timer is running afterwards.
C30_IncrementFlushes ==
  [][\A s \in Sockets :
       IncrementReturns(s) =>
         IF hist'[s].ret.n = 0
           THEN sock'[s] = sock[s] /\ bytes_received' = bytes_received
           ELSE /\ IncrementReports(s,
                     \/ hist[s].samples = 0
                     \/ sock[s].bytes_ + hist'[s].ret.n
                          > kActivityMonitorBytesThreshold)
                /\ sock'[s].timer_ ]_vars

\* the third sample since the timer task ran brought the held bytes to
\* 65536 and reported them at once
C30_Witness ==
  /\ pc[TheSocket] = "idle"
  /\ hist[TheSocket].ret.op = "Increment"
  /\ hist[TheSocket].ret.n = 1
  /\ hist[TheSocket].samples = 2
  /\ sock[TheSocket].bytes_ = 0
  /\ bytes_received = 1 + kActivityMonitorBytesThreshold + 1

\* the second sample, made with no bytes held, was held back
C30_WitnessHeld ==
  /\ pc[TheSocket] = "idle"
  /\ hist[TheSocket].ret.op = "Increment"
  /\ hist[TheSocket].ret.n = kActivityMonitorBytesThreshold
  /\ sock[TheSocket].bytes_ = kActivityMonitorBytesThreshold
  /\ bytes_received = 1

\* Increment(0) returned with bytes held
C30_WitnessZero ==
  /\ pc[TheSocket] = "idle"
  /\ hist[TheSocket].ret.op = "Increment"
  /\ hist[TheSocket].ret.n = 0
  /\ sock[TheSocket].bytes_ = 100

----------------------------------------------------------------------------
(* The timer task of the activity monitor (SpecMon)                        *)

\* C31: every run of the timer task resets increments_ to zero; a task
\* that finds no unreported bytes stops the timer and reports nothing, and
\* a task that finds bytes reports them, leaves none held and leaves the
\* timer running.  The task runs only while the timer is running.
C31_TimerFire ==
  [][\A s \in Sockets :
       TimerRuns(s) =>
         /\ sock[s].timer_
         /\ sock'[s].increments_ = 0
         /\ sock'[s].bytes_ = 0
         /\ hist'[s].ret.n = sock[s].bytes_
         /\ bytes_received' = bytes_received + sock[s].bytes_
         /\ sock'[s].timer_ = (sock[s].bytes_ # 0) ]_vars

\* the timer task found two samples counted and 100 bytes held: it
\* reported them, reset the counter and left the timer running
C31_Witness ==
  /\ pc[TheSocket] = "idle"
  /\ hist[TheSocket].ret.op = "OnTimerFired"
  /\ hist[TheSocket].ret.n = 100
  /\ sock[TheSocket].increments_ = 0
  /\ sock[TheSocket].bytes_ = 0
  /\ sock[TheSocket].timer_

\* the timer task found no bytes: it reported nothing and stopped the timer
C31_WitnessIdle ==
  /\ pc[TheSocket] = "idle"
  /\ hist[TheSocket].ret.op = "OnTimerFired"
  /\ hist[TheSocket].ret.n = 0
  /\ sock[TheSocket].increments_ = 0
  /\ ~sock[TheSocket].timer_
  /\ bytes_received > 0

----------------------------------------------------------------------------
(* The monitor over Close (SpecMon)                                        *)

\* C32: OnClose stops the timer and reports what is held: once Close has
\* returned, every byte passed to Increment has been reported to the
\* process-wide counter, none is held, and the timer is stopped; the timer
\* task runs only while the timer is running, and a stopped timer is
\* started only by an Increment with bytes # 0.
C32_CloseFlushes ==
  /\ [](\A s \in Sockets :
          (pc[s] = "idle" /\ hist[s].ret.op = "Close") =>
            /\ sock[s].bytes_ = 0
            /\ ~sock[s].timer_
            /\ (s = TheSocket => bytes_received = hist[s].passed))
  /\ [][\A s \in Sockets :
          /\ CloseOfOpenReturns(s) =>
               bytes_received' = bytes_received + sock[s].bytes_
          /\ TimerRuns(s) => sock[s].timer_
          /\ (~sock[s].timer_ /\ sock'[s].timer_) =>
               IncrementReturns(s) /\ hist'[s].ret.n # 0 ]_vars

\* Close has returned on a socket whose monitor held 100 of the 101 bytes
\* passed to it: all 101 are reported and the timer is stopped
C32_Witness ==
  /\ pc[TheSocket] = "idle"
  /\ hist[TheSocket].ret.op = "Close"
  /\ hist[TheSocket].ret.n = 100
  /\ hist[TheSocket].passed = 101
  /\ bytes_received = 101
  /\ ~sock[TheSocket].timer_

----------------------------------------------------------------------------
(* The differentiated-services code point (SpecDscp)                       *)

\* SetDiffServCodePoint returns on socket s in this step
DscpReturns(s) ==
  /\ hist'[s] # hist[s]
  /\ hist'[s].ret.op = "SetDiffServCodePoint"

\* C33 as stated: on an IPv6 socket the code point is set with both
\* options, and when setting the IPv6 option fails the call still returns
\* OK.
C33_DscpTolerant_Original ==
  [][\A s \in Sockets :
       (/\ DscpReturns(s)
        /\ hist'[s].ret.len # DSCP_NO_CHANGE
        /\ sock[s].addr_family_ = "AF_INET6") =>
         /\ hist'[s].ret.calls = <<"IP_TOS", "IPV6_TCLASS">>
         /\ hist'[s].ret.failed \in {"IPV6_TCLASS", "both"} =>
              hist'[s].ret.rv = OK ]_vars

\* C33, amended: DSCP_NO_CHANGE returns OK without a system call; any
\* other code point is set, as dscp << 2, with IP_TOS and, on an IPv6
\* socket, with IPV6_TCLASS after it.  On an IPv6 socket the result of
\* IP_TOS is ignored and the call returns OK exactly when IPV6_TCLASS
\* succeeded; on any other socket it returns OK exactly when IP_TOS
\* succeeded; a failure is returned as the mapped system error.  No field
\* of the socket changes.
C33_DscpOutcome ==
  [][\A s \in Sockets :
       DscpReturns(s) =>
         LET ret == hist'[s].ret
             v6 == sock[s].addr_family_ = "AF_INET6"
         IN /\ sock'[s] = sock[s]
            /\ IF ret.len = DSCP_NO_CHANGE
                 THEN ret.calls = <<>> /\ ret.rv = OK
                 ELSE /\ ret.n = 4 * ret.len
                      /\ ret.calls = IF v6 THEN <<"IP_TOS", "IPV6_TCLASS">>
                                     ELSE <<"IP_TOS">>
                      /\ ret.rv \in {OK, ERR_FAILED, ERR_ACCESS_DENIED}
                      /\ ret.rv = OK <=>
                           IF v6 THEN ret.failed \in {"none", "IP_TOS"}
                           ELSE ret.failed = "none" ]_vars

\* on an open IPv6 socket IP_TOS failed, IPV6_TCLASS succeeded, and the call
\* returned OK
C33_Witness ==
  /\ pc[TheSocket] = "idle"
  /\ sock[TheSocket].addr_family_ = "AF_INET6"
  /\ hist[TheSocket].ret.op = "SetDiffServCodePoint"
  /\ hist[TheSocket].ret.len = 46
  /\ hist[TheSocket].ret.n = 184
  /\ hist[TheSocket].ret.failed = "IP_TOS"
  /\ hist[TheSocket].ret.rv = OK

\* on an open IPv6 socket IPV6_TCLASS failed and the call returned the
\* mapped error
C33_WitnessError ==
  /\ pc[TheSocket] = "idle"
  /\ sock[TheSocket].addr_family_ = "AF_INET6"
  /\ hist[TheSocket].ret.op = "SetDiffServCodePoint"
  /\ hist[TheSocket].ret.failed = "IPV6_TCLASS"
  /\ hist[TheSocket].ret.rv = ERR_ACCESS_DENIED

----------------------------------------------------------------------------
(* Descriptors and the capacity of the gate (Spec)                         *)

\* C34: under every interleaving of the Open and Close steps of the
\* sockets, the descriptors that are open and owned by sockets are never
\* more than the capacity of the gate.
C34_DescriptorsWithinCapacity ==
  Cardinality({s \in Sockets : sock[s].socket_ \in os_fds}) <= GateCapacity

\* the gate is within its capacity and full, every socket has an open
\* descriptor, and one of them is in a Close that has returned its token
C34_Witness ==
  /\ global_socket_count = GateCapacity
  /\ \A s \in Sockets : sock[s].socket_ \in os_fds
  /\ \E s \in Sockets :
       /\ pc[s] = "Close_released"
       /\ TokensHeldBy(s) = 0
  /\ \E s \in Sockets :
       /\ pc[s] = "Open_created"
       /\ TokensHeldBy(s) = 1

----------------------------------------------------------------------------
(* Conservation of the bytes of the monitor (SpecMon)                      *)

\* C35: after any sequence of Increment, timer task and Close, the bytes
\* reported to the process-wide counter plus the bytes the monitor holds
\* are the bytes passed to Increment; the counter never goes down, an
\* Increment adds its bytes to the sum of both, and every other step moves
\* bytes from the monitor to the counter or leaves both.
C35_BytesConserved ==
  /\ [](bytes_received + sock[TheSocket].bytes_ = hist[TheSocket].passed)
  /\ [][/\ bytes_received' >= bytes_received
        /\ sock'[TheSocket].bytes_ >= 0
        /\ bytes_received' + sock'[TheSocket].bytes_ =
             bytes_received + sock[TheSocket].bytes_
             + (IF IncrementReturns(TheSocket)
                  THEN hist'[TheSocket].ret.n ELSE 0) ]_vars

\* of 202 bytes passed in four samples, 1 was reported by the first
\* Increment, 100 by the timer task, 1 by the third Increment, and 100 are
\* held
C35_Witness ==
  /\ pc[TheSocket] = "idle"
  /\ hist[TheSocket].passed = 202
  /\ bytes_received = 102
  /\ sock[TheSocket].bytes_ = 100
  /\ sock[TheSocket].timer_

----------------------------------------------------------------------------
(* Calls made from a running completion callback (SpecReent)               *)

\* C36: when a completion callback starts to run, its slot is empty and the
\* buffer, the length and the watcher of its direction are released; a
\* Read made from the running read callback (a Write from the write
\* callback) with the slot still empty does not fail the check of a single
\* outstanding operation; when such a call would block it is the pending
\* operation, with its callback stored and its watcher registered; and the
\* return of the callback changes no field of the socket.
C36_ReentrantCall ==
  [][\A s \in Sockets :
       /\ (pc[s] = "DoReadCallback" /\ pc'[s] = "ReadCallback") =>
            /\ sock'[s].read_callback_ = 0
            /\ sock'[s].read_buf_ = 0
            /\ ~sock'[s].read_socket_watcher_
       /\ (pc[s] = "DoWriteCallback" /\ pc'[s] = "WriteCallback") =>
            /\ sock'[s].write_callback_ = 0
            /\ sock'[s].write_buf_ = 0
            /\ ~sock'[s].write_socket_watcher_
       /\ (pc[s] = "ReadCallback" /\ sock[s].read_callback_ = 0 /\ aborted') =>
            sock[s].write_callback_ # 0
       /\ (pc[s] = "WriteCallback" /\ sock[s].write_callback_ = 0
           /\ aborted') =>
            sock[s].read_callback_ # 0
       /\ (/\ pc[s] = "ReadCallback"
           /\ hist'[s] # hist[s]
           /\ hist'[s].ret.op = "Read"
           /\ hist'[s].readRet[hist'[s].nRead] = "pending") =>
            /\ hist'[s].ret.rv = ERR_IO_PENDING
            /\ sock'[s].read_callback_ = hist'[s].nRead
            /\ sock'[s].read_buf_len_ = hist'[s].ret.len
            /\ sock'[s].read_socket_watcher_
       /\ (/\ pc[s] = "WriteCallback"
           /\ hist'[s] # hist[s]
           /\ hist'[s].ret.op = "Write"
           /\ hist'[s].writeRet[hist'[s].nWrite] = "pending") =>
            /\ hist'[s].ret.rv = ERR_IO_PENDING
            /\ sock'[s].write_callback_ = hist'[s].nWrite
            /\ sock'[s].write_buf_len_ = hist'[s].ret.len
            /\ sock'[s].write_socket_watcher_
       /\ (pc[s] \in {"ReadCallback", "WriteCallback"} /\ pc'[s] = "idle") =>
            sock'[s] = sock[s] ]_vars

\* the callback of the first Read is running and has called Read again:
\* the second Read is pending with its callback stored and its watcher
\* registered
C36_Witness ==
  /\ pc[TheSocket] = "ReadCallback"
  /\ ~aborted
  /\ hist[TheSocket].readRuns[1] = 1
  /\ hist[TheSocket].ret.op = "Read"
  /\ hist[TheSocket].ret.rv = ERR_IO_PENDING
  /\ hist[TheSocket].readRet[2] = "pending"
  /\ sock[TheSocket].read_callback_ = 2
  /\ sock[TheSocket].read_socket_watcher_

\* the same for Write, after the callback has returned
C36_WitnessWrite ==
  /\ pc[TheSocket] = "idle"
  /\ ~aborted
  /\ hist[TheSocket].writeRuns[1] = 1
  /\ hist[TheSocket].ret.op = "Write"
  /\ hist[TheSocket].ret.rv = ERR_IO_PENDING
  /\ hist[TheSocket].writeRet[2] = "pending"
  /\ sock[TheSocket].write_callback_ = 2
  /\ sock[TheSocket].write_socket_watcher_

----------------------------------------------------------------------------
(* Readiness events without a pending operation (SpecIo)                   *)

\* the read watcher (the write watcher) of socket s is notified in this step
ReadEvent(s) ==
  /\ hist'[s] # hist[s]
  /\ hist'[s].ret.op \in {"DidCompleteRead", "OnFileCanReadWithoutBlocking"}

WriteEvent(s) ==
  /\ hist'[s] # hist[s]
  /\ hist'[s].ret.op \in {"DidCompleteWrite", "OnFileCanWriteWithoutBlocking"}

\* nothing but the record of the notification changes
EventIgnored(s) ==
  /\ hist'[s].ret.path = "ignored"
  /\ sock'[s] = sock[s]
  /\ pc' = pc
  /\ os_fds' = os_fds
  /\ bytes_received' = bytes_received
  /\ global_socket_count' = global_socket_count
  /\ aborted' = aborted
  /\ hist'[s].readRuns = hist[s].readRuns
  /\ hist'[s].writeRuns = hist[s].writeRuns
  /\ hist'[s].readRet = hist[s].readRet
  /\ hist'[s].writeRet = hist[s].writeRet

\* C37: a readiness event for a direction without a pending operation is
\* ignored: no receive or send is attempted, no callback runs and no state
\* of the socket changes; an event for a direction with a pending operation
\* retries that operation.
C37_EventIgnored ==
  [][\A s \in Sockets :
       /\ ReadEvent(s) =>
            IF sock[s].read_callback_ = 0 THEN EventIgnored(s)
            ELSE hist'[s].ret.op = "DidCompleteRead"
       /\ WriteEvent(s) =>
            IF sock[s].write_callback_ = 0 THEN EventIgnored(s)
            ELSE hist'[s].ret.op = "DidCompleteWrite" ]_vars

\* a read event was ignored on an open socket whose Write is pending
C37_Witness ==
  /\ pc[TheSocket] = "idle"
  /\ hist[TheSocket].ret.op = "OnFileCanReadWithoutBlocking"
  /\ hist[TheSocket].ret.path = "ignored"
  /\ sock[TheSocket].socket_ # kInvalidSocket
  /\ sock[TheSocket].read_callback_ = 0
  /\ sock[TheSocket].write_callback_ # 0
  /\ sock[TheSocket].write_socket_watcher_

\* a write event was ignored on a socket that a Close left without pending
\* calls
C37_WitnessWrite ==
  /\ pc[TheSocket] = "idle"
  /\ hist[TheSocket].ret.op = "OnFileCanWriteWithoutBlocking"
  /\ hist[TheSocket].ret.path = "ignored"
  /\ \E n \in 1 .. MaxOps : hist[TheSocket].writeRet[n] = "dropped"
  /\ sock[TheSocket].write_callback_ = 0

----------------------------------------------------------------------------
(* A watcher that cannot be registered (SpecIo)                            *)

C38_WitnessError ==
  /\ pc[TheSocket] = "idle"
  /\ hist[TheSocket].ret.op = "Read"
  /\ hist[TheSocket].ret.rv = ERR_FAILED
  /\ hist[TheSocket].readRet[hist[TheSocket].nRead] = "unwatched"
  /\ sock[TheSocket].read_callback_ = 0

----------------------------------------------------------------------------
(* The tag of a socket whose Connect failed (SpecTag)                      *)

\* C39: whenever Connect returns an error, whichever step failed (the
\* multicast options, the bind, the conversion of the address or
\* connect(2)), tag_ is the default tag.
C39_FailedConnectResetsTag ==
  [][\A s \in Sockets :
       (CallReturns(s, "Connect") /\ hist'[s].ret.rv # OK) =>
         sock'[s].tag_ = "SocketTag()" ]_vars

\* Connect has returned the error of the IP_MULTICAST_TTL option, and the
\* socket still has the tag that was applied to it
C39_Witness ==
  /\ pc[TheSocket] = "idle"
  /\ hist[TheSocket].ret.op = "Connect"
  /\ hist[TheSocket].ret.rv # OK
  /\ hist[TheSocket].ret.failed = "IP_MULTICAST_TTL"
  /\ sock[TheSocket].tag_ = "tag1"
  /\ ~sock[TheSocket].is_connected_

\* Connect has returned the error of connect(2): the tag is the default one
C39_WitnessReset ==
  /\ pc[TheSocket] = "idle"
  /\ hist[TheSocket].ret.op = "Connect"
  /\ hist[TheSocket].ret.rv # OK
  /\ hist[TheSocket].ret.failed = "connect"
  /\ sock[TheSocket].tag_ = "SocketTag()"

----------------------------------------------------------------------------
(* Pending operations are resolved (SpecLive)                              *)

\* Read call n of socket s has just returned ERR_IO_PENDING
ReadReturnedPending(s, n) ==
  /\ hist[s].nRead = n
  /\ hist[s].ret.op = "Read"
  /\ hist[s].ret.rv = ERR_IO_PENDING

WriteReturnedPending(s, n) ==
  /\ hist[s].nWrite = n
  /\ hist[s].ret.op = "Write"
  /\ hist[s].ret.rv = ERR_IO_PENDING

C40_StoredCallbackResolved ==
  \A n \in Calls :
    /\ hist[TheSocket].readRet[n] = "pending" ~>
         \/ hist[TheSocket].readRuns[n] = 1
         \/ hist[TheSocket].readRet[n] = "dropped"
         \/ aborted
    /\ hist[TheSocket].writeRet[n] = "pending" ~>
         \/ hist[TheSocket].writeRuns[n] = 1
         \/ hist[TheSocket].writeRet[n] = "dropped"
         \/ aborted

\* the callback of a Read that was left pending has run
C40_WitnessResolved ==
  /\ pc[TheSocket] = "idle"
  /\ hist[TheSocket].readRet[1] = "pending"
  /\ hist[TheSocket].readRuns[1] = 1
  /\ hist[TheSocket].ret.op = "ReadCallback"

====
